---- MODULE Spec2Model ----
(***************************************************************************)
(* Verification model of the whispercap transcription core:                *)
(*   lib/transcribe/src/whisper.rs   chunked and single-pass transcription *)
(*   lib/transcribe/src/vad.rs       EnergyVAD and the silence trimmer     *)
(*   lib/transcribe/src/subtitle.rs  subtitle splitting                    *)
(*   whispercap/src/logic/transcribe.rs  subtitle lists, transcription jobs *)
(*                                                                         *)
(* Audio is a sequence of 100 ms blocks whose samples all have amplitude   *)
(* 1.0 (block value 1) or 0.0 (block value 0); every position is a sample  *)
(* index at 16 kHz.  f32 energies are kept as exact rationals (squared     *)
(* RMS = n / d), which is exact for these amplitudes.                      *)
(***************************************************************************)
EXTENDS Integers, Sequences, FiniteSets, TLC

VARIABLES
    \* WhisperTranscriber and one run of transcribe_file
    config, pc, chunks, chunk_idx, all_segments, full_text,
    global_segment_index, audio_duration, events, result, error,
    \* one call of an EnergyVAD detection method
    vad_samples, vad_self, vad_op, vad_out,
    \* one run of trim_slient_duration_of_audio
    audio_samples, timestamps, adaptive_threshold_factor, cancel, trim_pc,
    trim_index, output_timestamps, trim_progress, trim_result,
    \* one call of split_subtitle_into_two
    start_timestamp, end_timestamp, content, split_called, split_result,
    \* one conversion of a time to an SRT timestamp and back
    milliseconds, timestamp, time_pc, time_result,
    \* one call of split_audio_into_chunks
    chunker_audio, chunker_config, chunker_pc, current_start, chunker_chunks,
    silence_searches, silence_split,
    \* the start of one transcription or of one trim
    call_config, audio_format, audio_path_is_wav, call, call_pc, call_log,
    call_error,
    \* one operation over the subtitle list of the current entry
    subtitle_entries, current_time, bulk_op, bulk_outcome, bulk_result,
    bulk_texts, bulk_toasts,
    \* the transcription jobs of the application and the two flags they share
    progressing, progress_cancel_signal, job_pc, job_polls, cancel_requested,
    start_outcome,
    \* build profile: are integer overflow checks compiled in
    overflow_checks

engineVars == << config, pc, chunks, chunk_idx, all_segments, full_text,
                 global_segment_index, audio_duration, events, result, error >>

vadVars == << vad_samples, vad_self, vad_op, vad_out >>

trimVars == << audio_samples, timestamps, adaptive_threshold_factor, cancel,
               trim_pc, trim_index, output_timestamps, trim_progress, trim_result >>

splitVars == << start_timestamp, end_timestamp, content, split_called,
                split_result >>

timeVars == << milliseconds, timestamp, time_pc, time_result >>

chunkerVars == << chunker_audio, chunker_config, chunker_pc, current_start,
                  chunker_chunks, silence_searches, silence_split >>

setupVars == << call_config, audio_format, audio_path_is_wav, call, call_pc,
                call_log, call_error >>

bulkVars == << subtitle_entries, current_time, bulk_op, bulk_outcome,
              bulk_result, bulk_texts, bulk_toasts >>

jobsVars == << progressing, progress_cancel_signal, job_pc, job_polls,
              cancel_requested, start_outcome >>

vars == << engineVars, vadVars, trimVars, splitVars, timeVars, chunkerVars,
           setupVars, bulkVars, jobsVars, overflow_checks >>

otherThanEngine ==
    << vadVars, trimVars, splitVars, timeVars,
       chunkerVars, setupVars, bulkVars,
       jobsVars, overflow_checks >>
otherThanVad ==
    << engineVars, trimVars, splitVars, timeVars,
       chunkerVars, setupVars, bulkVars,
       jobsVars, overflow_checks >>
otherThanTrim ==
    << engineVars, vadVars, splitVars, timeVars,
       chunkerVars, setupVars, bulkVars,
       jobsVars, overflow_checks >>
otherThanSplit ==
    << engineVars, vadVars, trimVars, timeVars,
       chunkerVars, setupVars, bulkVars,
       jobsVars, overflow_checks >>
otherThanTime ==
    << engineVars, vadVars, trimVars, splitVars,
       chunkerVars, setupVars, bulkVars,
       jobsVars, overflow_checks >>
otherThanChunker ==
    << engineVars, vadVars, trimVars, splitVars,
       timeVars, setupVars, bulkVars,
       jobsVars, overflow_checks >>
otherThanSetup ==
    << engineVars, vadVars, trimVars, splitVars,
       timeVars, chunkerVars, bulkVars,
       jobsVars, overflow_checks >>
otherThanBulk ==
    << engineVars, vadVars, trimVars, splitVars,
       timeVars, chunkerVars, setupVars, jobsVars, overflow_checks >>
otherThanJobs ==
    << engineVars, vadVars, trimVars, splitVars,
       timeVars, chunkerVars, setupVars, bulkVars, overflow_checks >>

----------------------------------------------------------------------------
\* Bounds of the model

\* longest audio, in 100 ms blocks
MaxBlocks == 12
\* most raw segments one inference returns
MaxRaw == 2
\* longest sample slice handed to an EnergyVAD method, in 100 ms blocks
MaxVadBlocks == 6
\* longest audio handed to the trimmer, in 100 ms blocks
MaxTrimBlocks == 5
\* most windows handed to the trimmer
MaxWindows == 2
\* longest subtitle text, in characters
MaxText == 4
\* longest audio handed to one call of the chunker, in 100 ms blocks
MaxChunkerBlocks == 12
\* most runs of equal blocks (stretches of speech or of silence) in it
MaxRuns == 2
\* most chunks the chunker loop is followed for
MaxChunks == 4
\* most rows of a subtitle list
MaxEntries == 2
\* most transcription tasks alive at once
MaxJobs == 2
\* most ffmpeg events of one conversion, and most abort checks of one
\* transcription, that a task is followed for
MaxPolls == 2

----------------------------------------------------------------------------
\* Program constants

SampleRate == 16000
FrameSizeMs == 200
FrameShiftMs == 100
MaxSearchMs == 30000
MinSilenceDurationMs == 500

----------------------------------------------------------------------------
\* Helpers

Min(a, b) == IF a < b THEN a ELSE b
Max(a, b) == IF a > b THEN a ELSE b

\* Option<T>
None == << >>
Some(v) == << v >>

\* str::trim on a string kept as a sequence of characters
IsWhitespace(c) == c = " "

RECURSIVE TrimStart(_)
TrimStart(s) ==
    IF s = << >> THEN s
    ELSE IF IsWhitespace(Head(s)) THEN TrimStart(Tail(s)) ELSE s

RECURSIVE TrimEnd(_)
TrimEnd(s) ==
    IF s = << >> THEN s
    ELSE IF IsWhitespace(s[Len(s)]) THEN TrimEnd(SubSeq(s, 1, Len(s) - 1)) ELSE s

Trim(s) == TrimEnd(TrimStart(s))

----------------------------------------------------------------------------
\* Audio samples

BlockSamples == SampleRate \div 10

TotalSamples(audio) == Len(audio) * BlockSamples

\* sum of s * s over samples[lo..hi], from block i on
RECURSIVE SumSquares(_, _, _, _)
SumSquares(audio, lo, hi, i) ==
    IF i > Len(audio) THEN 0
    ELSE audio[i] * Max(0, Min(hi, i * BlockSamples) - Max(lo, (i - 1) * BlockSamples))
         + SumSquares(audio, lo, hi, i + 1)

\* EnergyVAD::calculate_rms, squared: n / d
calculate_rms(audio, lo, hi) ==
    [n |-> SumSquares(audio, lo, hi, 1), d |-> hi - lo]

\* rms * factor, squared; factor2 is the squared factor
ScaleRms(rms2, factor2) ==
    [n |-> rms2.n * factor2.n, d |-> rms2.d * factor2.d]

\* EnergyVAD::new: threshold 0.1 (squared 1/100), frame 200 ms, shift 100 ms
EnergyVAD_new(sample_rate) ==
    [threshold |-> [n |-> 1, d |-> 100], sample_rate |-> sample_rate,
     frame_size_ms |-> FrameSizeMs, frame_shift_ms |-> FrameShiftMs]

with_threshold(vad, threshold2) == [vad EXCEPT !.threshold = threshold2]

\* EnergyVAD::contain_speech: rms > threshold
contain_speech(vad, audio, lo, hi) ==
    IF lo >= hi THEN FALSE
    ELSE LET rms2 == calculate_rms(audio, lo, hi)
         IN  rms2.n * vad.threshold.d > vad.threshold.n * rms2.d

----------------------------------------------------------------------------
\* EnergyVAD detection methods; samples is the slice audio[lo..hi]

SliceLen(samples) == samples.hi - samples.lo

FrameSize(v) == (v.sample_rate * v.frame_size_ms) \div 1000
FrameShift(v) == (v.sample_rate * v.frame_shift_ms) \div 1000

\* is the frame at offset..frame_end of the slice speech
FrameIsSpeech(v, samples, offset, frame_end) ==
    contain_speech(v, samples.audio, samples.lo + offset, samples.lo + frame_end)

\* detect_all_active_segments: the frame loop, from frame index on
RECURSIVE ActiveScan(_, _, _, _)
ActiveScan(v, samples, index, st) ==
    LET offset == index * FrameShift(v)
        frame_end == Min(offset + FrameSize(v), SliceLen(samples))
    IN  IF offset >= SliceLen(samples) \/ offset >= frame_end THEN st
        ELSE IF FrameIsSpeech(v, samples, offset, frame_end)
        THEN ActiveScan(v, samples, index + 1,
                 [st EXCEPT !.in_active_segment = TRUE,
                            !.end_ms = @ + v.frame_shift_ms])
        ELSE ActiveScan(v, samples, index + 1,
                 [segments |-> IF st.in_active_segment
                               THEN Append(st.segments, << st.start_ms, st.end_ms >>)
                               ELSE st.segments,
                  in_active_segment |-> FALSE,
                  start_ms |-> index * v.frame_shift_ms,
                  end_ms |-> index * v.frame_shift_ms])

ActiveScanEnd(v, samples) ==
    ActiveScan(v, samples, 0,
               [segments |-> << >>, in_active_segment |-> FALSE,
                start_ms |-> 0, end_ms |-> 0])

detect_all_active_segments(v, samples) ==
    LET st == ActiveScanEnd(v, samples)
        total_ms == (SliceLen(samples) * 1000) \div v.sample_rate
        segments == st.segments
    IN  IF segments # << >>
           /\ st.start_ms >= segments[Len(segments)][2]
           /\ segments[Len(segments)][2] < total_ms
        THEN Append(segments, << st.start_ms, total_ms >>)
        ELSE segments

\* a forward scan that converts the frame index with the frame size
RECURSIVE LeadingScan_FrameSize(_, _, _)
LeadingScan_FrameSize(v, samples, index) ==
    LET offset == index * FrameShift(v)
        frame_end == Min(offset + FrameSize(v), SliceLen(samples))
    IN  IF offset >= SliceLen(samples) \/ offset >= frame_end THEN 0
        ELSE IF FrameIsSpeech(v, samples, offset, frame_end)
        THEN (IF index = 0 THEN 0 ELSE index * v.frame_size_ms)
        ELSE LeadingScan_FrameSize(v, samples, index + 1)

\* detect_leading_silent_duration_ms: the forward frame loop
RECURSIVE LeadingScan(_, _, _)
LeadingScan(v, samples, index) ==
    LET offset == index * FrameShift(v)
        frame_end == Min(offset + FrameSize(v), SliceLen(samples))
    IN  IF offset >= SliceLen(samples) \/ offset >= frame_end THEN 0
        ELSE IF FrameIsSpeech(v, samples, offset, frame_end)
        THEN (IF index = 0 THEN 0 ELSE index * v.frame_shift_ms)
        ELSE LeadingScan(v, samples, index + 1)

detect_leading_silent_duration_ms(v, samples) == LeadingScan(v, samples, 0)

\* detect_trailing_silent_duration_ms: the backward frame loop
RECURSIVE TrailingScan(_, _, _, _)
TrailingScan(v, samples, total_frames, index) ==
    LET offset == index * FrameShift(v)
        frame_end == Min(offset + FrameSize(v), SliceLen(samples))
    IN  IF index < 0 \/ offset >= frame_end THEN 0
        ELSE IF FrameIsSpeech(v, samples, offset, frame_end)
        THEN (IF index = total_frames - 1 THEN 0
              ELSE (total_frames - index - 1) * v.frame_shift_ms + v.frame_size_ms)
        ELSE TrailingScan(v, samples, total_frames, index - 1)

\* usize arithmetic: samples.len() - frame_size underflows when the slice is
\* shorter than one frame.  With overflow checks (debug profile) that panics;
\* without them (release profile) it wraps, and either total_frames wraps
\* back to 0 or the first offset lies beyond the slice: the method returns 0.
detect_trailing_silent_duration_ms(v, samples, checks) ==
    LET total_frames ==
            (SliceLen(samples) - FrameSize(v) + FrameShift(v) - 1) \div FrameShift(v)
    IN  IF SliceLen(samples) < FrameSize(v)
        THEN [panicked |-> checks, value |-> 0]
        ELSE [panicked |-> FALSE,
              value |-> TrailingScan(v, samples, total_frames, total_frames - 1)]

----------------------------------------------------------------------------
\* One call of an EnergyVAD method on a sample slice

VadAudios == UNION { [1..n -> {0, 1}] : n \in 0..MaxVadBlocks }

\* the slice is the whole audio, or the audio without its last 50 ms
VadSlices ==
    UNION { { [audio |-> a, lo |-> 0, hi |-> h] :
                h \in { TotalSamples(a),
                        Max(0, TotalSamples(a) - (BlockSamples \div 2)) } } :
            a \in VadAudios }

\* squared adaptive_threshold_factor
Factors == { [n |-> 1, d |-> 4], [n |-> 1, d |-> 1] }

VadsFor(samples) ==
    { EnergyVAD_new(SampleRate) } \cup
    { with_threshold(EnergyVAD_new(SampleRate),
                     ScaleRms(calculate_rms(samples.audio, samples.lo, samples.hi), f)) :
        f \in IF SliceLen(samples) > 0 THEN Factors ELSE { } }

VadInit ==
    /\ vad_samples \in VadSlices
    /\ vad_self \in VadsFor(vad_samples)
    /\ vad_op = "none"
    /\ vad_out = [panicked |-> FALSE, value |-> 0, segments |-> << >>]

DetectAllActiveSegments ==
    /\ vad_op = "none"
    /\ vad_op' = "detect_all_active_segments"
    /\ vad_out' = [panicked |-> FALSE, value |-> 0,
                   segments |-> detect_all_active_segments(vad_self, vad_samples)]
    /\ UNCHANGED << vad_samples, vad_self >>
    /\ UNCHANGED otherThanVad

DetectLeadingSilentDurationMs ==
    /\ vad_op = "none"
    /\ vad_op' = "detect_leading_silent_duration_ms"
    /\ vad_out' = [panicked |-> FALSE, segments |-> << >>,
                   value |-> detect_leading_silent_duration_ms(vad_self, vad_samples)]
    /\ UNCHANGED << vad_samples, vad_self >>
    /\ UNCHANGED otherThanVad

DetectTrailingSilentDurationMs ==
    /\ vad_op = "none"
    /\ vad_op' = "detect_trailing_silent_duration_ms"
    /\ LET r == detect_trailing_silent_duration_ms(vad_self, vad_samples,
                                                   overflow_checks)
       IN  vad_out' = [panicked |-> r.panicked, value |-> r.value,
                       segments |-> << >>]
    /\ UNCHANGED << vad_samples, vad_self >>
    /\ UNCHANGED otherThanVad

NextVad ==
    \/ DetectAllActiveSegments
    \/ DetectLeadingSilentDurationMs
    \/ DetectTrailingSilentDurationMs

VadIdle ==
    /\ vad_samples = [audio |-> << >>, lo |-> 0, hi |-> 0]
    /\ vad_self = EnergyVAD_new(SampleRate)
    /\ vad_op = "none"
    /\ vad_out = [panicked |-> FALSE, value |-> 0, segments |-> << >>]

----------------------------------------------------------------------------
\* trim_slient_duration_of_audio

\* a new start that does not keep one frame of the leading silence
NewStartMs_WholeSilence(start_ms, leading_silent_offset, frame_size_ms) ==
    IF leading_silent_offset = 0 THEN start_ms
    ELSE IF leading_silent_offset > frame_size_ms
         THEN start_ms + leading_silent_offset
         ELSE start_ms

\* new start time after removing leading silence
NewStartMs(start_ms, leading_silent_offset, frame_size_ms) ==
    IF leading_silent_offset = 0 THEN start_ms
    ELSE IF leading_silent_offset > frame_size_ms
         THEN start_ms + leading_silent_offset - frame_size_ms
         ELSE start_ms

\* new end time after removing trailing silence
NewEndMs(start_ms, end_ms, trailing_silent_duration, frame_size_ms) ==
    IF trailing_silent_duration = 0 THEN end_ms
    ELSE LET duration_ms == end_ms - start_ms
             silent_offset_ms == IF trailing_silent_duration > frame_size_ms
                                 THEN trailing_silent_duration - frame_size_ms
                                 ELSE 0
         IN  end_ms - Min(silent_offset_ms, duration_ms)

\* a push that swaps the two fields of the trimmed window
OutputWindow_Swapped(start_ms, end_ms, new_start_ms, new_end_ms) ==
    IF new_start_ms >= new_end_ms THEN << start_ms, end_ms >>
    ELSE << new_end_ms, new_start_ms >>

\* the window pushed to output_timestamps
OutputWindow(start_ms, end_ms, new_start_ms, new_end_ms) ==
    IF new_start_ms >= new_end_ms THEN << start_ms, end_ms >>
    ELSE << new_start_ms, new_end_ms >>

\* one iteration of the window loop, after the cancel check
TrimWindow(audio, start_ms, end_ms, factor2, checks) ==
    LET sample_rate == SampleRate
        total_indexs == TotalSamples(audio)
        start_index == (sample_rate * start_ms) \div 1000
        end_index == Min((sample_rate * end_ms) \div 1000, total_indexs)
        segment == [audio |-> audio, lo |-> start_index, hi |-> end_index]
        v == with_threshold(EnergyVAD_new(sample_rate),
                 ScaleRms(calculate_rms(audio, start_index, end_index), factor2))
        leading_silent_offset == detect_leading_silent_duration_ms(v, segment)
        trailing == detect_trailing_silent_duration_ms(v, segment, checks)
        new_start_ms == NewStartMs(start_ms, leading_silent_offset, v.frame_size_ms)
        new_end_ms == NewEndMs(start_ms, end_ms, trailing.value, v.frame_size_ms)
    IN  IF start_index >= end_index
        THEN [kind |-> "kept", window |-> << start_ms, end_ms >>]
        ELSE IF trailing.panicked
        THEN [kind |-> "panicked", window |-> << start_ms, end_ms >>]
        ELSE [kind |-> "trimmed",
              window |-> OutputWindow(start_ms, end_ms, new_start_ms, new_end_ms)]

TrimAudios == UNION { [1..n -> {0, 1}] : n \in 0..MaxTrimBlocks }

TrimGrid == { 100 * k : k \in 0..MaxTrimBlocks + 1 }

\* windows with start_ms < end_ms
TrimWindows == { w \in TrimGrid \X TrimGrid : w[1] < w[2] }

\* ordered, non-overlapping window lists, as a subtitle list holds them
TimestampLists ==
    { ts \in UNION { [1..n -> TrimWindows] : n \in 0..MaxWindows } :
        \A i \in 1..Len(ts) - 1 : ts[i][2] <= ts[i + 1][1] }

NoTrimResult == [status |-> "None", timestamps |-> << >>]

\* the run has read a 16 kHz mono file and stands before the window loop
TrimInit ==
    /\ audio_samples \in TrimAudios
    /\ timestamps \in TimestampLists
    /\ adaptive_threshold_factor \in Factors
    /\ cancel = FALSE
    /\ trim_pc = "loop"
    /\ trim_index = 0
    /\ output_timestamps = << >>
    /\ trim_progress = << >>
    /\ trim_result = NoTrimResult

\* cancel.load(Relaxed) is true: Ok((vec![], Cancelled))
TrimCancelled ==
    /\ trim_pc = "loop"
    /\ trim_index < Len(timestamps)
    /\ cancel
    /\ trim_result' = [status |-> "Cancelled", timestamps |-> << >>]
    /\ trim_pc' = "returned"
    /\ UNCHANGED << audio_samples, timestamps, adaptive_threshold_factor, cancel,
                    trim_index, output_timestamps, trim_progress >>
    /\ UNCHANGED otherThanTrim

\* one window: kept (empty slice, no progress report), trimmed, or panic
TrimStep ==
    /\ trim_pc = "loop"
    /\ trim_index < Len(timestamps)
    /\ ~cancel
    /\ LET w == timestamps[trim_index + 1]
           r == TrimWindow(audio_samples, w[1], w[2], adaptive_threshold_factor,
                           overflow_checks)
       IN  /\ trim_pc' = IF r.kind = "panicked" THEN "panicked" ELSE "loop"
           /\ output_timestamps' = IF r.kind = "panicked" THEN output_timestamps
                                   ELSE Append(output_timestamps, r.window)
           /\ trim_progress' =
                  IF r.kind = "trimmed"
                  THEN Append(trim_progress,
                              ((trim_index + 1) * 100) \div Len(timestamps))
                  ELSE trim_progress
           /\ trim_index' = IF r.kind = "panicked" THEN trim_index
                            ELSE trim_index + 1
    /\ UNCHANGED << audio_samples, timestamps, adaptive_threshold_factor, cancel,
                    trim_result >>
    /\ UNCHANGED otherThanTrim

\* after the loop: Ok((output_timestamps, Finished))
TrimFinish ==
    /\ trim_pc = "loop"
    /\ trim_index = Len(timestamps)
    /\ trim_result' = [status |-> "Finished", timestamps |-> output_timestamps]
    /\ trim_pc' = "returned"
    /\ UNCHANGED << audio_samples, timestamps, adaptive_threshold_factor, cancel,
                    trim_index, output_timestamps, trim_progress >>
    /\ UNCHANGED otherThanTrim

\* another thread stores true into the shared cancel flag
CancelProgress ==
    /\ trim_pc = "loop"
    /\ ~cancel
    /\ cancel' = TRUE
    /\ UNCHANGED << audio_samples, timestamps, adaptive_threshold_factor, trim_pc,
                    trim_index, output_timestamps, trim_progress, trim_result >>
    /\ UNCHANGED otherThanTrim

NextTrim ==
    \/ TrimCancelled
    \/ TrimStep
    \/ TrimFinish
    \/ CancelProgress

TrimIdle ==
    /\ audio_samples = << >>
    /\ timestamps = << >>
    /\ adaptive_threshold_factor = [n |-> 1, d |-> 1]
    /\ cancel = FALSE
    /\ trim_pc = "idle"
    /\ trim_index = 0
    /\ output_timestamps = << >>
    /\ trim_progress = << >>
    /\ trim_result = NoTrimResult

----------------------------------------------------------------------------
\* split_subtitle_into_two; a text is a sequence of characters

\* the characters of the model: ASCII letters, space, comma, period, a CJK
\* letter (3 bytes), the fullwidth comma and period (3 bytes each) and the
\* combining acute accent U+0301 (2 bytes, extends a grapheme cluster)
len_utf8(c) ==
    IF c \in { "CJK", "FWCOMMA", "FWPERIOD" } THEN 3
    ELSE IF c = "ACUTE" THEN 2
    ELSE 1

delimiters == { " ", ",", ".", "FWCOMMA", "FWPERIOD" }

\* str::len: the length in bytes
RECURSIVE ByteLen(_)
ByteLen(text) ==
    IF text = << >> THEN 0 ELSE len_utf8(Head(text)) + ByteLen(Tail(text))

\* the byte positions right after each delimiter, in scan order, each with
\* the number of characters before it
split_positions(text) ==
    LET RECURSIVE Scan(_, _)
        Scan(i, acc) ==
            IF i > Len(text) THEN acc
            ELSE Scan(i + 1,
                      IF text[i] \in delimiters
                      THEN Append(acc, [pos |-> ByteLen(SubSeq(text, 1, i)),
                                        chars |-> i])
                      ELSE acc)
    IN  Scan(1, << >>)

\* a min_by_key that keeps the last of several equally near positions
RECURSIVE MinByKey_Last(_, _, _, _)
MinByKey_Last(positions, target_split, i, best) ==
    LET Key(p) == IF p.pos >= target_split THEN p.pos - target_split
                  ELSE target_split - p.pos
    IN  IF i > Len(positions) THEN best
        ELSE MinByKey_Last(positions, target_split, i + 1,
                 IF Key(positions[i]) <= Key(best) THEN positions[i] ELSE best)

\* Iterator::min_by_key: the first element with the least key
RECURSIVE MinByKey(_, _, _, _)
MinByKey(positions, target_split, i, best) ==
    LET Key(p) == IF p.pos >= target_split THEN p.pos - target_split
                  ELSE target_split - p.pos
    IN  IF i > Len(positions) THEN best
        ELSE MinByKey(positions, target_split, i + 1,
                      IF Key(positions[i]) < Key(best) THEN positions[i] ELSE best)

\* UnicodeSegmentation::graphemes(true): the number of characters of the
\* first mid grapheme clusters; a combining mark extends the cluster before it
RECURSIVE GraphemeCount(_)
GraphemeCount(text) ==
    IF text = << >> THEN 0
    ELSE IF Len(text) >= 2 /\ text[Len(text)] = "ACUTE"
    THEN GraphemeCount(SubSeq(text, 1, Len(text) - 1))
    ELSE 1 + GraphemeCount(SubSeq(text, 1, Len(text) - 1))

\* a midpoint taken as a count of characters, not of grapheme clusters
GraphemePrefixChars_CodePoints(text, mid) == mid

\* characters in the first mid grapheme clusters
GraphemePrefixChars(text, mid) ==
    LET fits == { i \in 0..Len(text) :
                    /\ GraphemeCount(SubSeq(text, 1, i)) = mid
                    /\ (i < Len(text) => text[i + 1] # "ACUTE" \/ i = 0) }
    IN  CHOOSE i \in fits : \A j \in fits : j <= i

NoSplit ==
    [some |-> FALSE, first |-> << 0, 0, << >> >>, second |-> << 0, 0, << >> >>]

\* a split time whose denominator counts the characters of the trimmed text
SplitTime_Trimmed(start_ts, end_ts, first_part, text) ==
    LET total_chars == Len(Trim(text))
        first_part_chars == Len(first_part)
        duration == end_ts - start_ts
    IN  start_ts + ((duration * first_part_chars) \div total_chars)

\* the time at which the first half ends and the second begins
SplitTime(start_ts, end_ts, first_part, text) ==
    LET total_chars == Len(text)
        first_part_chars == Len(first_part)
        duration == end_ts - start_ts
    IN  start_ts + ((duration * first_part_chars) \div total_chars)

split_subtitle_into_two(start_ts, end_ts, text) ==
    LET positions == split_positions(text)
        best_split == MinByKey(positions, ByteLen(text) \div 2, 2, positions[1])
        mid == GraphemeCount(text) \div 2
        cut == IF positions = << >> THEN GraphemePrefixChars(text, mid)
               ELSE best_split.chars
        first_part == IF positions = << >> THEN SubSeq(text, 1, cut)
                      ELSE Trim(SubSeq(text, 1, cut))
        second_part == IF positions = << >> THEN SubSeq(text, cut + 1, Len(text))
                       ELSE Trim(SubSeq(text, cut + 1, Len(text)))
        split_time == SplitTime(start_ts, end_ts, first_part, text)
    IN  IF text = << >> \/ ByteLen(Trim(text)) <= 1 THEN NoSplit
        ELSE [some |-> TRUE,
              first |-> << start_ts, split_time, first_part >>,
              second |-> << split_time, end_ts, second_part >>]

Characters == { "a", " ", ",", "CJK", "FWCOMMA", "ACUTE" }

Texts == UNION { [1..n -> Characters] : n \in 0..MaxText }

TimeSpans == { << 0, 1000 >>, << 1200, 1300 >>, << 70, 70 >> }

SplitInit ==
    /\ \E span \in TimeSpans :
          /\ start_timestamp = span[1]
          /\ end_timestamp = span[2]
    /\ content \in Texts
    /\ split_called = FALSE
    /\ split_result = NoSplit

SplitSubtitleIntoTwo ==
    /\ ~split_called
    /\ split_called' = TRUE
    /\ split_result' = split_subtitle_into_two(start_timestamp, end_timestamp, content)
    /\ UNCHANGED << start_timestamp, end_timestamp, content >>
    /\ UNCHANGED otherThanSplit

NextSplit == SplitSubtitleIntoTwo

SplitIdle ==
    /\ start_timestamp = 0
    /\ end_timestamp = 0
    /\ content = << >>
    /\ split_called = FALSE
    /\ split_result = NoSplit

----------------------------------------------------------------------------
\* SRT timestamps; a timestamp is a sequence of characters

Digits == << "0", "1", "2", "3", "4", "5", "6", "7", "8", "9" >>

IsDigit(c) == \E d \in 0..9 : Digits[d + 1] = c

DigitValue(c) == CHOOSE d \in 0..9 : Digits[d + 1] = c

\* the decimal digits of n
RECURSIVE Decimal(_)
Decimal(n) ==
    IF n < 10 THEN << Digits[n + 1] >>
    ELSE Append(Decimal(n \div 10), Digits[(n % 10) + 1])

\* format!("{:0width}", n): zero padded to at least width digits
RECURSIVE PadZeros(_, _)
PadZeros(digits, width) ==
    IF Len(digits) >= width THEN digits
    ELSE PadZeros(<< "0" >> \o digits, width)

FormatPadded(n, width) == PadZeros(Decimal(n), width)

ms_to_timestamp(ms, ms_sep) ==
    LET total_seconds == ms \div 1000
        hours == total_seconds \div 3600
        minutes == (total_seconds % 3600) \div 60
        seconds == total_seconds % 60
        millis == ms % 1000
    IN  FormatPadded(hours, 2) \o << ":" >> \o FormatPadded(minutes, 2)
            \o << ":" >> \o FormatPadded(seconds, 2) \o << ms_sep >>
            \o FormatPadded(millis, 3)

ms_to_srt_timestamp(ms) == ms_to_timestamp(ms, ",")

\* chrono's numeric item: skip leading whitespace, then read 1 to max_width
\* digits as a number
ScanNumber(s, max_width) ==
    LET t == TrimStart(s)
        RECURSIVE Count(_)
        Count(i) == IF i < max_width /\ i < Len(t) /\ IsDigit(t[i + 1])
                    THEN Count(i + 1) ELSE i
        RECURSIVE Value(_, _)
        Value(i, acc) == IF i > Count(0) THEN acc
                         ELSE Value(i + 1, (acc * 10) + DigitValue(t[i]))
    IN  [ok |-> Count(0) >= 1,
         value |-> Value(1, 0),
         rest |-> SubSeq(t, Count(0) + 1, Len(t))]

\* chrono's literal item
ScanLiteral(s, c) ==
    [ok |-> s # << >> /\ Head(s) = c,
     rest |-> IF s = << >> THEN s ELSE Tail(s)]

NoTime == [ok |-> FALSE, hour |-> 0, minute |-> 0, second |-> 0, nanosecond |-> 0]

\* NaiveTime::parse_from_str(s, "%H:%M:%S,%f"); a second of 60 is a leap
\* second, kept as second 59 with one more second of nanoseconds
NaiveTime_parse_from_str(s) ==
    LET h == ScanNumber(s, 2)
        l1 == ScanLiteral(h.rest, ":")
        m == ScanNumber(l1.rest, 2)
        l2 == ScanLiteral(m.rest, ":")
        sec == ScanNumber(l2.rest, 2)
        l3 == ScanLiteral(sec.rest, ",")
        f == ScanNumber(l3.rest, 9)
    IN  IF /\ h.ok /\ l1.ok /\ m.ok /\ l2.ok /\ sec.ok /\ l3.ok /\ f.ok
           /\ f.rest = << >>
           /\ h.value <= 23 /\ m.value <= 59 /\ sec.value <= 60
        THEN [ok |-> TRUE, hour |-> h.value, minute |-> m.value,
              second |-> IF sec.value = 60 THEN 59 ELSE sec.value,
              nanosecond |-> IF sec.value = 60 THEN 1000000000 + f.value
                             ELSE f.value]
        ELSE NoTime

\* Result<u64>
Err == [ok |-> FALSE, value |-> 0]
Ok(v) == [ok |-> TRUE, value |-> v]

\* a decoder that takes the parsed fraction for nanoseconds
srt_timestamp_to_ms_Nanos(ts) ==
    LET time == NaiveTime_parse_from_str(ts)
    IN  IF ~time.ok THEN Err
        ELSE Ok((time.hour * 3600000) + (time.minute * 60000)
                    + (time.second * 1000) + (time.nanosecond \div 1000000))

srt_timestamp_to_ms(ts) ==
    LET time == NaiveTime_parse_from_str(ts)
    IN  IF ~time.ok THEN Err
        ELSE Ok((time.hour * 3600000) + (time.minute * 60000)
                    + (time.second * 1000) + time.nanosecond)

\* the times converted: every field at its least, its greatest and at a
\* change of its number of digits, and hours past the end of a day
TimeHours == { 0, 1, 9, 10, 23, 24, 100 }
TimeMinutes == { 0, 9, 59 }
TimeSeconds == { 0, 10, 59 }
TimeMillis == { 0, 1, 9, 10, 99, 100, 500, 999 }

TimeInputs ==
    { (h * 3600000) + (m * 60000) + (sec * 1000) + f :
        h \in TimeHours, m \in TimeMinutes, sec \in TimeSeconds, f \in TimeMillis }

TimeInit ==
    /\ milliseconds \in TimeInputs
    /\ timestamp = << >>
    /\ time_pc = "start"
    /\ time_result = Err

MsToSrtTimestamp ==
    /\ time_pc = "start"
    /\ timestamp' = ms_to_srt_timestamp(milliseconds)
    /\ time_pc' = "formatted"
    /\ UNCHANGED << milliseconds, time_result >>
    /\ UNCHANGED otherThanTime

SrtTimestampToMs ==
    /\ time_pc = "formatted"
    /\ time_result' = srt_timestamp_to_ms(timestamp)
    /\ time_pc' = "parsed"
    /\ UNCHANGED << milliseconds, timestamp >>
    /\ UNCHANGED otherThanTime

NextTime ==
    \/ MsToSrtTimestamp
    \/ SrtTimestampToMs

TimeIdle ==
    /\ milliseconds = 0
    /\ timestamp = << >>
    /\ time_pc = "idle"
    /\ time_result = Err

----------------------------------------------------------------------------
\* WhisperTranscriber::find_silence_split_point

\* the frame loop; silence_start_offset is an Option<usize>
RECURSIVE SilenceScan(_, _, _, _, _, _)
SilenceScan(audio, target_end, search_len, vad, offset, silence_start_offset) ==
    LET frame_size == (SampleRate * vad.frame_size_ms) \div 1000
        frame_shift == (SampleRate * vad.frame_shift_ms) \div 1000
        min_silence_samples == (MinSilenceDurationMs * SampleRate) \div 1000
        frame_offset == offset * frame_shift
        frame_end == Min(frame_offset + frame_size, search_len)
        has_speech == contain_speech(vad, audio, target_end + frame_offset,
                                     target_end + frame_end)
    IN  IF frame_offset >= search_len THEN << target_end, FALSE >>
        ELSE IF ~has_speech
        THEN SilenceScan(audio, target_end, search_len, vad, offset + 1,
                         IF silence_start_offset = None THEN Some(frame_offset)
                         ELSE silence_start_offset)
        ELSE IF silence_start_offset # None
                /\ frame_offset - silence_start_offset[1] >= min_silence_samples
        THEN LET silence_duration_samples == frame_offset - silence_start_offset[1]
                 split_offset == silence_start_offset[1] + (silence_duration_samples \div 2)
             IN  << Min(target_end + split_offset, TotalSamples(audio)), TRUE >>
        ELSE SilenceScan(audio, target_end, search_len, vad, offset + 1, None)

find_silence_split_point(audio, target_end, max_search_ms) ==
    LET max_search_samples == (max_search_ms * SampleRate) \div 1000
        search_end == Min(target_end + max_search_samples, TotalSamples(audio))
        rms_threshold == ScaleRms(calculate_rms(audio, target_end, search_end),
                                  [n |-> 1, d |-> 4])
        vad == with_threshold(EnergyVAD_new(SampleRate), rms_threshold)
    IN  IF target_end >= search_end THEN << target_end, FALSE >>
        ELSE SilenceScan(audio, target_end, search_end - target_end, vad, 0, None)

----------------------------------------------------------------------------
\* WhisperTranscriber::split_audio_into_chunks

\* usize values: a negative number x stands for the wrapped value 2^64 + x
ULess(a, b) == IF (a < 0) = (b < 0) THEN a < b ELSE b < 0

\* one iteration of the while loop, from the chunk end to the break test;
\* checks says whether a usize subtraction that underflows panics or wraps
ChunkIteration(audio, chunk_samples, overlap_samples, start, checks) ==
    LET total_samples == TotalSamples(audio)
        ideal_chunk_end == Min(start + chunk_samples, total_samples)
        searched == ideal_chunk_end < total_samples
        split == IF searched
                 THEN find_silence_split_point(audio, ideal_chunk_end, MaxSearchMs)
                 ELSE << ideal_chunk_end, FALSE >>
        chunk_end == split[1]
        is_split_in_slient_point == split[2]
        offset_ms == (start * 1000) \div SampleRate
        next_start == IF is_split_in_slient_point THEN chunk_end
                      ELSE chunk_end - overlap_samples
        limit == total_samples - overlap_samples
    IN  [chunk |-> [samples |-> [lo |-> start, hi |-> chunk_end],
                    start_offset_ms |-> offset_ms],
         searched |-> searched,
         target_end |-> ideal_chunk_end,
         aligned |-> is_split_in_slient_point,
         next_start |-> next_start,
         panicked |-> checks /\ (next_start < 0 \/ limit < 0),
         break |-> ~ULess(next_start, limit)]

\* the while loop; a chunk keeps the bounds of its sample slice
RECURSIVE ChunkLoop(_, _, _, _, _)
ChunkLoop(audio, chunk_samples, overlap_samples, start, acc) ==
    LET it == ChunkIteration(audio, chunk_samples, overlap_samples, start, FALSE)
        pushed == Append(acc, it.chunk)
    IN  IF ~ULess(start, TotalSamples(audio)) THEN acc
        ELSE IF it.break THEN pushed
        ELSE ChunkLoop(audio, chunk_samples, overlap_samples, it.next_start, pushed)

split_audio_into_chunks(audio, cfg) ==
    LET chunk_length_ms == IF cfg.chunk_length_ms = None THEN 60000
                           ELSE cfg.chunk_length_ms[1]
        overlap_ms == IF cfg.chunk_overlap_ms = None THEN 1000
                      ELSE cfg.chunk_overlap_ms[1]
        total_samples == TotalSamples(audio)
        chunk_samples == (chunk_length_ms * SampleRate) \div 1000
        overlap_samples == (overlap_ms * SampleRate) \div 1000
    IN  IF total_samples * 1000 <= chunk_length_ms * SampleRate
        THEN << [samples |-> [lo |-> 0, hi |-> total_samples], start_offset_ms |-> 0] >>
        ELSE ChunkLoop(audio, chunk_samples, overlap_samples, 0, << >>)

----------------------------------------------------------------------------
\* One call of WhisperTranscriber::split_audio_into_chunks, loop iteration
\* by loop iteration

chunk_length_ms_of(cfg) ==
    IF cfg.chunk_length_ms = None THEN 60000 ELSE cfg.chunk_length_ms[1]

overlap_ms_of(cfg) ==
    IF cfg.chunk_overlap_ms = None THEN 1000 ELSE cfg.chunk_overlap_ms[1]

chunk_samples_of(cfg) == (chunk_length_ms_of(cfg) * SampleRate) \div 1000

overlap_samples_of(cfg) == (overlap_ms_of(cfg) * SampleRate) \div 1000

\* the call is made only when should_use_chunking holds
ChunkerLengths == { Some(200), Some(500) }
ChunkerOverlaps == { None, Some(0), Some(100), Some(200), Some(450) }

ChunkerConfigs ==
    [chunk_length_ms : ChunkerLengths, chunk_overlap_ms : ChunkerOverlaps]

\* the number of runs of equal blocks of an audio
Runs(audio) ==
    IF audio = << >> THEN 0
    ELSE 1 + Cardinality({ i \in 1..Len(audio) - 1 : audio[i] # audio[i + 1] })

ChunkerAudios ==
    { audio \in UNION { [1..n -> {0, 1}] : n \in 0..MaxChunkerBlocks } :
        Runs(audio) <= MaxRuns }

ChunkerInit ==
    /\ chunker_audio \in ChunkerAudios
    /\ chunker_config \in ChunkerConfigs
    /\ chunker_pc = "start"
    /\ current_start = 0
    /\ chunker_chunks = << >>
    /\ silence_searches = 0
    /\ silence_split = None

\* a single-chunk test that sends an audio of exactly chunk_length_ms to the
\* loop
SplitAudioIntoChunks_Strict ==
    /\ chunker_pc = "start"
    /\ LET total_samples == TotalSamples(chunker_audio)
       IN  IF total_samples * 1000 < chunk_length_ms_of(chunker_config) * SampleRate
           THEN /\ chunker_chunks' =
                       << [samples |-> [lo |-> 0, hi |-> total_samples],
                           start_offset_ms |-> 0] >>
                /\ chunker_pc' = "returned"
           ELSE /\ chunker_chunks' = << >>
                /\ chunker_pc' = "loop"
    /\ UNCHANGED << chunker_audio, chunker_config, current_start, silence_searches,
                    silence_split >>
    /\ UNCHANGED otherThanChunker

\* the single-chunk test before the loop
SplitAudioIntoChunks ==
    /\ chunker_pc = "start"
    /\ LET total_samples == TotalSamples(chunker_audio)
       IN  IF total_samples * 1000 <= chunk_length_ms_of(chunker_config) * SampleRate
           THEN /\ chunker_chunks' =
                       << [samples |-> [lo |-> 0, hi |-> total_samples],
                           start_offset_ms |-> 0] >>
                /\ chunker_pc' = "returned"
           ELSE /\ chunker_chunks' = << >>
                /\ chunker_pc' = "loop"
    /\ UNCHANGED << chunker_audio, chunker_config, current_start, silence_searches,
                    silence_split >>
    /\ UNCHANGED otherThanChunker

\* one iteration of `while current_start < total_samples`
ChunkerIterate ==
    /\ chunker_pc = "loop"
    /\ ULess(current_start, TotalSamples(chunker_audio))
    /\ Len(chunker_chunks) < MaxChunks
    /\ LET it == ChunkIteration(chunker_audio, chunk_samples_of(chunker_config),
                                overlap_samples_of(chunker_config), current_start,
                                overflow_checks)
       IN  /\ chunker_chunks' = Append(chunker_chunks, it.chunk)
           /\ silence_searches' = silence_searches + (IF it.searched THEN 1 ELSE 0)
           /\ silence_split' = IF it.searched
                              THEN Some([target_end |-> it.target_end,
                                         split |-> it.chunk.samples.hi,
                                         aligned |-> it.aligned])
                              ELSE None
           /\ current_start' = IF it.panicked THEN current_start ELSE it.next_start
           /\ chunker_pc' = IF it.panicked THEN "panicked"
                            ELSE IF it.break THEN "returned"
                            ELSE "loop"
    /\ UNCHANGED << chunker_audio, chunker_config >>
    /\ UNCHANGED otherThanChunker

\* the while condition fails: the chunks are returned
ChunkerReturn ==
    /\ chunker_pc = "loop"
    /\ ~ULess(current_start, TotalSamples(chunker_audio))
    /\ chunker_pc' = "returned"
    /\ UNCHANGED << chunker_audio, chunker_config, current_start, chunker_chunks,
                    silence_searches, silence_split >>
    /\ UNCHANGED otherThanChunker

NextChunker ==
    \/ SplitAudioIntoChunks
    \/ ChunkerIterate
    \/ ChunkerReturn

ChunkerIdle ==
    /\ chunker_audio = << >>
    /\ chunker_config = [chunk_length_ms |-> None, chunk_overlap_ms |-> None]
    /\ chunker_pc = "idle"
    /\ current_start = 0
    /\ chunker_chunks = << >>
    /\ silence_searches = 0
    /\ silence_split = None

----------------------------------------------------------------------------
\* Construction of a WhisperTranscriber and the start of a transcription or
\* of a trim, up to the first inference or the first window: where the
\* configuration and the audio format are checked.  call_log keeps the order
\* of the steps that touch the model, the audio or the inference state.

\* WhisperConfig::validate; the temperature is kept in tenths
validate(cfg) ==
    IF ~cfg.model_path_exists THEN "model path not exist"
    ELSE IF cfg.n_threads <= 0 THEN "n_threads is 0"
    ELSE IF ~(0 <= cfg.temperature /\ cfg.temperature <= 10)
    THEN "temperature should between 0.0 and 1.0"
    ELSE "ok"

\* AudioData::is_whisper_compatible
is_whisper_compatible(format) ==
    format.sample_rate = SampleRate /\ format.channels = 1

\* a preparation that does not look at the sample rate
prepare_audio_samples_AnyRate(format) ==
    [error |-> "", to_mono |-> format.channels > 1]

\* WhisperTranscriber::prepare_audio_samples: the error, and whether the
\* samples were converted to mono
prepare_audio_samples(format) ==
    IF format.sample_rate # SampleRate
    THEN [error |-> "Not compatible with whisper", to_mono |-> format.channels > 1]
    ELSE [error |-> "", to_mono |-> format.channels > 1]

\* the format test at the head of trim_slient_duration_of_audio
trim_audio_samples(format) ==
    IF is_whisper_compatible(format) THEN [error |-> "", to_mono |-> FALSE]
    ELSE IF format.sample_rate # SampleRate
    THEN [error |-> "Not compatible with whisper", to_mono |-> FALSE]
    ELSE [error |-> "", to_mono |-> format.channels > 1]

\* what is set in a configuration, with present and absent files
SetupConfigs ==
    [model_path_exists : BOOLEAN,
     n_threads : { 0, 4 },
     temperature : { -1, 0, 10, 11 },
     vad_model_path : { None, Some(TRUE), Some(FALSE) },
     chunk_length_ms : { None, Some(500) }]

AudioFormats == [sample_rate : { 8000, SampleRate, 44100 }, channels : { 1, 2 }]

SetupInit ==
    /\ call_config \in SetupConfigs
    /\ audio_format \in AudioFormats
    /\ audio_path_is_wav \in BOOLEAN
    /\ call \in { "transcribe", "trim" }
    /\ call_pc = IF call = "transcribe" THEN "new" ELSE "trim"
    /\ call_log = << >>
    /\ call_error = ""

Fail(step_log, message) ==
    /\ call_pc' = "error"
    /\ call_log' = call_log \o step_log
    /\ call_error' = message

Goto(step_log, next_pc) ==
    /\ call_pc' = next_pc
    /\ call_log' = call_log \o step_log
    /\ call_error' = call_error

\* WhisperTranscriber::new
New ==
    /\ call_pc = "new"
    /\ IF validate(call_config) # "ok" THEN Fail(<< >>, validate(call_config))
       ELSE \/ Fail(<< "load_model" >>, "Load Whisper model error")
            \/ Goto(<< "load_model" >>, "transcribe_file")
    /\ UNCHANGED << call_config, audio_format, audio_path_is_wav, call >>
    /\ UNCHANGED otherThanSetup

\* transcribe_file up to the choice of the mode
TranscribeFile ==
    /\ call_pc = "transcribe_file"
    /\ IF ~audio_path_is_wav THEN Fail(<< >>, "Only support wav format file")
       ELSE \/ Fail(<< "read_file" >>, "read file failed")
            \/ Goto(<< "read_file" >>,
                    IF call_config.chunk_length_ms # None
                          /\ call_config.chunk_length_ms[1] > 0
                    THEN "chunked" ELSE "single")
    /\ UNCHANGED << call_config, audio_format, audio_path_is_wav, call >>
    /\ UNCHANGED otherThanSetup

\* transcribe_audio_data up to state.full
SingleSetup ==
    /\ call_pc = "single"
    /\ LET prepared == IF is_whisper_compatible(audio_format)
                       THEN [error |-> "", to_mono |-> FALSE]
                       ELSE prepare_audio_samples(audio_format)
           mono == IF prepared.to_mono THEN << "to_mono" >> ELSE << >>
       IN  IF prepared.error # "" THEN Fail(mono, prepared.error)
           ELSE \/ Fail(mono, "Create whisper state failed")
                \/ IF call_config.vad_model_path = Some(FALSE)
                   THEN Fail(mono \o << "create_state" >>, "No found vad model path")
                   ELSE Goto(mono \o << "create_state" >>, "infer")
    /\ UNCHANGED << call_config, audio_format, audio_path_is_wav, call >>
    /\ UNCHANGED otherThanSetup

\* transcribe_audio_data_chunked up to state.full of the first chunk
ChunkedSetup ==
    /\ call_pc = "chunked"
    /\ LET prepared == IF is_whisper_compatible(audio_format)
                       THEN [error |-> "", to_mono |-> FALSE]
                       ELSE prepare_audio_samples(audio_format)
           mono == IF prepared.to_mono THEN << "to_mono" >> ELSE << >>
       IN  IF prepared.error # "" THEN Fail(mono, prepared.error)
           ELSE \/ Fail(mono \o << "split" >>, "Transcription aborted")
                \/ Fail(mono \o << "split" >>, "Create whisper state for chunk failed")
                \/ Goto(mono \o << "split", "create_state" >>, "infer")
    /\ UNCHANGED << call_config, audio_format, audio_path_is_wav, call >>
    /\ UNCHANGED otherThanSetup

\* state.full is called
Infer ==
    /\ call_pc = "infer"
    /\ Goto(<< "full" >>, "inferred")
    /\ UNCHANGED << call_config, audio_format, audio_path_is_wav, call >>
    /\ UNCHANGED otherThanSetup

\* trim_slient_duration_of_audio up to the window loop
TrimSetup ==
    /\ call_pc = "trim"
    /\ \/ Fail(<< "read_file" >>, "read file failed")
       \/ LET prepared == trim_audio_samples(audio_format)
              mono == IF prepared.to_mono THEN << "to_mono" >> ELSE << >>
          IN  IF prepared.error # ""
              THEN Fail(<< "read_file" >> \o mono, prepared.error)
              ELSE Goto(<< "read_file" >> \o mono, "trim_loop")
    /\ UNCHANGED << call_config, audio_format, audio_path_is_wav, call >>
    /\ UNCHANGED otherThanSetup

\* the window loop starts
TrimFirstWindow ==
    /\ call_pc = "trim_loop"
    /\ Goto(<< "window" >>, "trimmed")
    /\ UNCHANGED << call_config, audio_format, audio_path_is_wav, call >>
    /\ UNCHANGED otherThanSetup

NextSetup ==
    \/ New
    \/ TranscribeFile
    \/ SingleSetup
    \/ ChunkedSetup
    \/ Infer
    \/ TrimSetup
    \/ TrimFirstWindow

SetupIdle ==
    /\ call_config = [model_path_exists |-> TRUE, n_threads |-> 4, temperature |-> 0,
                      vad_model_path |-> None, chunk_length_ms |-> None]
    /\ audio_format = [sample_rate |-> SampleRate, channels |-> 1]
    /\ audio_path_is_wav = TRUE
    /\ call = "none"
    /\ call_pc = "idle"
    /\ call_log = << >>
    /\ call_error = ""

----------------------------------------------------------------------------
\* Inference (whisper_rs state.full): what the engine may return for a chunk

\* chunk duration in the 10 ms units of whisper timestamps
DurationCs(slice) == ((slice.hi - slice.lo) * 100) \div SampleRate

RawTexts == { << >>, << " " >>, << "a" >>, << "a", " " >> }

\* a raw segment starts at the chunk's start or 10 ms before its end
RawSegment(dur_cs) ==
    [start_timestamp : {0, Max(0, dur_cs - 1)}, end_timestamp : {dur_cs},
     text : RawTexts]

\* raw segment lists with non-decreasing start times inside the chunk
InferenceOutputs(dur_cs) ==
    { raw \in UNION { [1..n -> RawSegment(dur_cs)] : n \in 0..MaxRaw } :
        \A i \in 1..Len(raw) - 1 :
            raw[i].start_timestamp <= raw[i + 1].start_timestamp }

----------------------------------------------------------------------------
\* WhisperTranscriber::extract_transcription_result(_with_offset)

\* the segment loop; i is the 0-based raw segment number
RECURSIVE ExtractLoop(_, _, _, _, _)
ExtractLoop(raw, i, start_segment_index, segments, text) ==
    IF i >= Len(raw) THEN [text |-> text, segments |-> segments]
    ELSE LET segment == raw[i + 1]
             segment_text == Trim(segment.text)
         IN  IF segment_text = << >>
             THEN ExtractLoop(raw, i + 1, start_segment_index, segments, text)
             ELSE ExtractLoop(raw, i + 1, start_segment_index,
                      Append(segments,
                             [index |-> start_segment_index + i + 1,
                              start_time |-> segment.start_timestamp * 10,
                              end_time |-> segment.end_timestamp * 10,
                              text |-> segment_text]),
                      (IF text # << >> THEN Append(text, " ") ELSE text)
                          \o segment_text)

extract_transcription_result_with_offset(raw, start_segment_index) ==
    ExtractLoop(raw, 0, start_segment_index, << >>, << >>)

extract_transcription_result(raw) ==
    ExtractLoop(raw, 0, 0, << >>, << >>)

----------------------------------------------------------------------------
\* One run of WhisperTranscriber::transcribe_file

should_use_chunking(cfg) ==
    cfg.chunk_length_ms # None /\ cfg.chunk_length_ms[1] > 0

ChunkLengths == { None, Some(0), Some(500) }
ChunkOverlaps == { Some(0), Some(100), Some(105) }
Configs == [chunk_length_ms : ChunkLengths, chunk_overlap_ms : ChunkOverlaps]

Audios == UNION { [1..n -> {0, 1}] : n \in 0..MaxBlocks }

Event(kind, chunk, val, st, et) ==
    [kind |-> kind, chunk |-> chunk, val |-> val,
     start_timestamp |-> st, end_timestamp |-> et]

EngineInit ==
    /\ config \in Configs
    /\ pc = "idle"
    /\ chunks = << >>
    /\ chunk_idx = 0
    /\ all_segments = << >>
    /\ full_text = << >>
    /\ global_segment_index = 0
    /\ audio_duration = 0
    /\ events = << >>
    /\ result = None
    /\ error = ""

\* transcribe_audio_data: single pass, inference succeeds
TranscribeAudioData ==
    /\ pc = "idle"
    /\ ~should_use_chunking(config)
    /\ \E audio \in Audios :
       \E raw \in InferenceOutputs((TotalSamples(audio) * 100) \div SampleRate) :
          LET r == extract_transcription_result(raw)
          IN  /\ audio_duration' = (TotalSamples(audio) * 1000) \div SampleRate
              /\ result' = Some([text |-> r.text, segments |-> r.segments,
                                 audio_duration |-> audio_duration'])
    /\ pc' = "done"
    /\ UNCHANGED << config, chunks, chunk_idx, all_segments, full_text,
                    global_segment_index, events, error >>
    /\ UNCHANGED otherThanEngine

\* transcribe_audio_data: state.full fails (or is aborted through abort_cb)
TranscribeAudioDataFailed ==
    /\ pc = "idle"
    /\ ~should_use_chunking(config)
    /\ \E audio \in Audios :
          audio_duration' = (TotalSamples(audio) * 1000) \div SampleRate
    /\ pc' = "error"
    /\ error' = "Whisper transcribe failed"
    /\ UNCHANGED << config, chunks, chunk_idx, all_segments, full_text,
                    global_segment_index, events, result >>
    /\ UNCHANGED otherThanEngine

\* transcribe_audio_data_chunked up to the chunk loop
ChunkedStart ==
    /\ pc = "idle"
    /\ should_use_chunking(config)
    /\ \E audio \in Audios :
          /\ chunks' = split_audio_into_chunks(audio, config)
          /\ audio_duration' = (TotalSamples(audio) * 1000) \div SampleRate
    /\ pc' = "chunked"
    /\ UNCHANGED << config, chunk_idx, all_segments, full_text,
                    global_segment_index, events, result, error >>
    /\ UNCHANGED otherThanEngine

\* loop iteration: abort_cb() returns true
ChunkedAbort ==
    /\ pc = "chunked"
    /\ chunk_idx < Len(chunks)
    /\ events' = Append(events, Event("abort", chunk_idx, 1, 0, 0))
    /\ pc' = "error"
    /\ error' = "Transcription aborted"
    /\ UNCHANGED << config, chunks, chunk_idx, all_segments, full_text,
                    global_segment_index, audio_duration, result >>
    /\ UNCHANGED otherThanEngine

\* a run that swallows the chunk error and returns what it has so far
ChunkedInferFailed_Partial ==
    /\ pc = "chunked"
    /\ chunk_idx < Len(chunks)
    /\ events' = events \o << Event("abort", chunk_idx, 0, 0, 0),
                              Event("infer", chunk_idx, 0, 0, 0) >>
    /\ pc' = "done"
    /\ result' = Some([text |-> full_text, segments |-> all_segments,
                       audio_duration |-> audio_duration])
    /\ UNCHANGED << config, chunks, chunk_idx, all_segments, full_text,
                    global_segment_index, audio_duration, error >>
    /\ UNCHANGED otherThanEngine

\* loop iteration: transcribe_chunk_internal returns Err
ChunkedInferFailed ==
    /\ pc = "chunked"
    /\ chunk_idx < Len(chunks)
    /\ events' = events \o << Event("abort", chunk_idx, 0, 0, 0),
                              Event("infer", chunk_idx, 0, 0, 0) >>
    /\ pc' = "error"
    /\ error' = "Whisper transcribe chunk failed"
    /\ UNCHANGED << config, chunks, chunk_idx, all_segments, full_text,
                    global_segment_index, audio_duration, result >>
    /\ UNCHANGED otherThanEngine

\* the segments of a chunk result shifted by the chunk offset
AdjustSegments(segments, start_offset_ms) ==
    [i \in 1..Len(segments) |->
        [segments[i] EXCEPT !.start_time = @ + start_offset_ms,
                            !.end_time = @ + start_offset_ms]]

\* the SegmentCallbackData handed to segmemnt_cb
SegmentEvents(adjusted, idx) ==
    [i \in 1..Len(adjusted) |->
        Event("segment", idx, adjusted[i].index - 1,
              adjusted[i].start_time \div 10, adjusted[i].end_time \div 10)]

\* full_text after a chunk: a space, then the chunk text
PushChunkText(text, chunk_text) ==
    (IF text # << >> THEN Append(text, " ") ELSE text) \o chunk_text

\* a loop iteration that reports the progress before the segments
ChunkedChunk_ProgressFirst ==
    /\ pc = "chunked"
    /\ chunk_idx < Len(chunks)
    /\ LET chunk == chunks[chunk_idx + 1]
       IN  \E raw \in InferenceOutputs(DurationCs(chunk.samples)) :
           LET chunk_result ==
                   extract_transcription_result_with_offset(raw, global_segment_index)
               adjusted == AdjustSegments(chunk_result.segments, chunk.start_offset_ms)
           IN  /\ global_segment_index' =
                      global_segment_index + Len(chunk_result.segments)
               /\ all_segments' = all_segments \o adjusted
               /\ full_text' = PushChunkText(full_text, chunk_result.text)
               /\ events' = events
                      \o << Event("abort", chunk_idx, 0, 0, 0),
                            Event("infer", chunk_idx, 1, 0, 0),
                            Event("progress", chunk_idx,
                                  ((chunk_idx + 1) * 100) \div Len(chunks), 0, 0) >>
                      \o SegmentEvents(adjusted, chunk_idx)
    /\ chunk_idx' = chunk_idx + 1
    /\ UNCHANGED << config, pc, chunks, audio_duration, result, error >>
    /\ UNCHANGED otherThanEngine

\* loop iteration: the chunk is transcribed
ChunkedChunk ==
    /\ pc = "chunked"
    /\ chunk_idx < Len(chunks)
    /\ LET chunk == chunks[chunk_idx + 1]
       IN  \E raw \in InferenceOutputs(DurationCs(chunk.samples)) :
           LET chunk_result ==
                   extract_transcription_result_with_offset(raw, global_segment_index)
               adjusted == AdjustSegments(chunk_result.segments, chunk.start_offset_ms)
           IN  /\ global_segment_index' =
                      global_segment_index + Len(chunk_result.segments)
               /\ all_segments' = all_segments \o adjusted
               /\ full_text' = PushChunkText(full_text, chunk_result.text)
               /\ events' = events
                      \o << Event("abort", chunk_idx, 0, 0, 0),
                            Event("infer", chunk_idx, 1, 0, 0) >>
                      \o SegmentEvents(adjusted, chunk_idx)
                      \o << Event("progress", chunk_idx,
                                  ((chunk_idx + 1) * 100) \div Len(chunks), 0, 0) >>
    /\ chunk_idx' = chunk_idx + 1
    /\ UNCHANGED << config, pc, chunks, audio_duration, result, error >>
    /\ UNCHANGED otherThanEngine

\* after the loop: progress_cb(100) and Ok(result)
ChunkedFinish ==
    /\ pc = "chunked"
    /\ chunk_idx = Len(chunks)
    /\ events' = Append(events, Event("progress", chunk_idx, 100, 0, 0))
    /\ result' = Some([text |-> full_text, segments |-> all_segments,
                       audio_duration |-> audio_duration])
    /\ pc' = "done"
    /\ UNCHANGED << config, chunks, chunk_idx, all_segments, full_text,
                    global_segment_index, audio_duration, error >>
    /\ UNCHANGED otherThanEngine

Next ==
    \/ TranscribeAudioData
    \/ TranscribeAudioDataFailed
    \/ ChunkedStart
    \/ ChunkedAbort
    \/ ChunkedInferFailed
    \/ ChunkedChunk
    \/ ChunkedFinish

EngineIdle ==
    /\ config = [chunk_length_ms |-> None, chunk_overlap_ms |-> None]
    /\ pc = "idle"
    /\ chunks = << >>
    /\ chunk_idx = 0
    /\ all_segments = << >>
    /\ full_text = << >>
    /\ global_segment_index = 0
    /\ audio_duration = 0
    /\ events = << >>
    /\ result = None
    /\ error = ""

----------------------------------------------------------------------------
\* The operations of the application over the whole subtitle list

\* the timestamp strings of an entry: three written by ms_to_srt_timestamp
\* and one with a period for the comma, as an edit by hand leaves it
TimestampStrings ==
    { ms_to_srt_timestamp(0), ms_to_srt_timestamp(1500),
      ms_to_srt_timestamp(3000), ms_to_timestamp(1500, ".") }

UISubtitleEntry ==
    { [start_timestamp |-> s, end_timestamp |-> e,
       original_text |-> t[1], translation_text |-> t[2]] :
        s \in TimestampStrings, e \in TimestampStrings,
        t \in { << "a", "" >>, << "b", "t" >> } }

\* both conversions of an entry succeeded
BothOk(start, end) == start.ok /\ end.ok

\* both timestamps of the entry parse
Parses(item) ==
    BothOk(srt_timestamp_to_ms(item.start_timestamp),
           srt_timestamp_to_ms(item.end_timestamp))

\* what filter_map keeps of a row: nothing, or its row number and its times
ParsedRow(row, start, end) ==
    IF BothOk(start, end)
    THEN << [index |-> row, start_timestamp |-> start.value,
             end_timestamp |-> end.value] >>
    ELSE << >>

\* the rows of the list that parse, each with its row number and its times
RECURSIVE ParsedRows(_, _)
ParsedRows(entries, row) ==
    IF row > Len(entries) THEN << >>
    ELSE ParsedRow(row, srt_timestamp_to_ms(entries[row].start_timestamp),
                   srt_timestamp_to_ms(entries[row].end_timestamp))
             \o ParsedRows(entries, row + 1)

\* partition_point over rows in the order of their start times: the
\* number of rows that start at or before the time
PartitionPoint(parsed, time) ==
    Cardinality({ i \in 1..Len(parsed) : parsed[i].start_timestamp <= time })

\* the texts of the row before the partition point, when the time is
\* within its window
TextsAt(subtitles, parsed, index, time) ==
    IF /\ index > 0
       /\ parsed[index].start_timestamp <= time
       /\ time <= parsed[index].end_timestamp
    THEN << subtitles[parsed[index].index].original_text,
            subtitles[parsed[index].index].translation_text >>
    ELSE << "", "" >>

CurrentTexts(subtitles, parsed, time) ==
    TextsAt(subtitles, parsed, PartitionPoint(parsed, time), time)

\* the texts get_current_subtitle returns for current_time
get_current_subtitle(subtitles, time) ==
    CurrentTexts(subtitles, ParsedRows(subtitles, 1), time)

\* the rows that parse are in the order of their start times
InTimeOrder(parsed) ==
    \A i \in 1..Len(parsed) : \A j \in i..Len(parsed) :
        parsed[i].start_timestamp <= parsed[j].start_timestamp

\* the list of the current entry: at most MaxEntries rows, those that parse
\* in the order of their start times
SubtitleLists ==
    { l \in UNION { [1..n -> UISubtitleEntry] : n \in 0..MaxEntries } :
        InTimeOrder(ParsedRows(l, 1)) }

\* the positions the player asks the current subtitle for
PlayerTimes == { 0, 1500, 4000 }

BulkInit ==
    /\ subtitle_entries \in SubtitleLists
    /\ bulk_op = "idle"
    /\ bulk_outcome = "idle"
    /\ bulk_result = << >>
    /\ bulk_texts = << "", "" >>
    /\ bulk_toasts = 0
    /\ current_time = 0

\* optimize_subtitles_timestamp up to the hand-over to the trimmer: the loop
\* warns about a row that does not parse and then unwraps its results
OptimizeSubtitlesTimestamp ==
    /\ bulk_op = "idle"
    /\ bulk_op' = "optimize"
    /\ IF \E row \in 1..Len(subtitle_entries) : ~Parses(subtitle_entries[row])
       THEN /\ bulk_outcome' = "panicked"
            /\ bulk_toasts' = 1
            /\ bulk_result' = << >>
       ELSE /\ bulk_toasts' = 0
            /\ bulk_result' = ParsedRows(subtitle_entries, 1)
            /\ IF subtitle_entries = << >>
               THEN bulk_outcome' = "empty"
               ELSE \E audio_exists \in BOOLEAN :
                       bulk_outcome' = IF audio_exists THEN "spawned"
                                       ELSE "no_audio"
    /\ UNCHANGED << subtitle_entries, bulk_texts, current_time >>
    /\ UNCHANGED otherThanBulk

\* to_subtitles: the first row that does not convert ends the export
ToSubtitles ==
    /\ bulk_op = "idle"
    /\ bulk_op' = "export"
    /\ IF \E row \in 1..Len(subtitle_entries) : ~Parses(subtitle_entries[row])
       THEN /\ bulk_outcome' = "none"
            /\ bulk_toasts' = 1
            /\ bulk_result' = << >>
       ELSE /\ bulk_outcome' = "some"
            /\ bulk_toasts' = 0
            /\ bulk_result' = ParsedRows(subtitle_entries, 1)
    /\ UNCHANGED << subtitle_entries, bulk_texts, current_time >>
    /\ UNCHANGED otherThanBulk

GetCurrentSubtitle ==
    /\ bulk_op = "idle"
    /\ \E time \in PlayerTimes :
          /\ current_time' = time
          /\ bulk_texts' = get_current_subtitle(subtitle_entries, time)
    /\ bulk_op' = "lookup"
    /\ bulk_outcome' = "texts"
    /\ bulk_result' = ParsedRows(subtitle_entries, 1)
    /\ UNCHANGED << subtitle_entries, bulk_toasts >>
    /\ UNCHANGED otherThanBulk

NextBulk ==
    \/ OptimizeSubtitlesTimestamp
    \/ ToSubtitles
    \/ GetCurrentSubtitle

BulkIdle ==
    /\ subtitle_entries = << >>
    /\ bulk_op = "idle"
    /\ bulk_outcome = "idle"
    /\ bulk_result = << >>
    /\ bulk_texts = << "", "" >>
    /\ bulk_toasts = 0
    /\ current_time = 0

----------------------------------------------------------------------------
\* The transcription jobs of the application (whispercap logic/transcribe.rs)
\*
\* The handlers on_start_transcribe and cancel_progress run on the UI event
\* loop; every accepted start spawns a task that runs concurrently with the
\* event loop and with the other tasks.  A task is followed statement by
\* statement over the two shared fields of CACHE, progressing and
\* progress_cancel_signal; job_pc names the statement a task executes next.

Jobs == 1..MaxJobs

\* get_progressing(): CACHE.progressing
get_progressing == progressing

\* progress_cancelled(): a load of CACHE.progress_cancel_signal
progress_cancelled == progress_cancel_signal

\* the task has passed the two stores at its start
JobRunning(j) == job_pc[j] \notin { "none", "spawned", "reset" }

\* the free task slot an accepted start uses
FreeJob == CHOOSE j \in Jobs : job_pc[j] = "none" /\ \A k \in 1..j - 1 : job_pc[k] # "none"

JobsInit ==
    /\ progressing = FALSE
    /\ progress_cancel_signal = FALSE
    /\ job_pc = [j \in Jobs |-> "none"]
    /\ job_polls = [j \in Jobs |-> 0]
    /\ cancel_requested = [j \in Jobs |-> FALSE]
    /\ start_outcome = "none"

\* a read of the cancel flag by task j
JobPoll(j) ==
    /\ job_polls' = [job_polls EXCEPT ![j] = @ + 1]
    /\ cancel_requested' = [cancel_requested EXCEPT ![j] = FALSE]

\* the handler of start-transcribe: rejected while progressing is set,
\* dropped when start_transcribe finds the language or a file invalid,
\* otherwise the task is spawned
on_start_transcribe(valid) ==
    /\ \E j \in Jobs : job_pc[j] = "none"
    /\ IF get_progressing
       THEN /\ start_outcome' = "rejected"
            /\ UNCHANGED job_pc
       ELSE IF ~valid
       THEN /\ start_outcome' = "invalid"
            /\ UNCHANGED job_pc
       ELSE /\ start_outcome' = "spawned"
            /\ job_pc' = [job_pc EXCEPT ![FreeJob] = "spawned"]
    /\ UNCHANGED << progressing, progress_cancel_signal, job_polls,
                    cancel_requested >>
    /\ UNCHANGED otherThanJobs

\* the handler of cancel-progress: set_progress_cancel_signal(true)
cancel_progress ==
    /\ progress_cancel_signal' = TRUE
    /\ cancel_requested' = [j \in Jobs |-> cancel_requested[j] \/ JobRunning(j)]
    /\ UNCHANGED << progressing, job_pc, job_polls, start_outcome >>
    /\ UNCHANGED otherThanJobs

\* task: set_progressing(true)
JobSetProgressing(j) ==
    /\ job_pc[j] = "spawned"
    /\ progressing' = TRUE
    /\ job_pc' = [job_pc EXCEPT ![j] = "reset"]
    /\ UNCHANGED << progress_cancel_signal, job_polls, cancel_requested,
                    start_outcome >>
    /\ UNCHANGED otherThanJobs

\* task: set_progress_cancel_signal(false), then output_audio_path.exists()
JobResetCancel(j, exists) ==
    /\ job_pc[j] = "reset"
    /\ progress_cancel_signal' = FALSE
    /\ job_pc' = [job_pc EXCEPT ![j] = IF exists THEN "cancel_check" ELSE "convert"]
    /\ UNCHANGED << progressing, job_polls, cancel_requested, start_outcome >>
    /\ UNCHANGED otherThanJobs

\* task: convert_to_whisper_compatible_audio evaluates
\* get_progress_cancel_signal(), which stores false before it returns the flag
JobConvertStart(j) ==
    /\ job_pc[j] = "convert"
    /\ progress_cancel_signal' = FALSE
    /\ job_pc' = [job_pc EXCEPT ![j] = "converting"]
    /\ UNCHANGED << progressing, job_polls, cancel_requested, start_outcome >>
    /\ UNCHANGED otherThanJobs

\* task: one ffmpeg event of convert_to_audio, which loads the flag first
JobConvertEvent(j) ==
    /\ job_pc[j] = "converting"
    /\ job_polls[j] < MaxPolls
    /\ JobPoll(j)
    /\ job_pc' = [job_pc EXCEPT ![j] = IF progress_cancel_signal THEN "converted"
                                       ELSE "converting"]
    /\ UNCHANGED << progressing, progress_cancel_signal, start_outcome >>
    /\ UNCHANGED otherThanJobs

\* task: the ffmpeg events end (Ok), or ffmpeg could not be started (Err)
JobConvertEnd(j, ok) ==
    /\ job_pc[j] = "converting"
    /\ job_pc' = [job_pc EXCEPT ![j] = IF ok THEN "converted" ELSE "finish"]
    /\ UNCHANGED << progressing, progress_cancel_signal, job_polls,
                    cancel_requested, start_outcome >>
    /\ UNCHANGED otherThanJobs

\* task: progress_cancelled() after the conversion returned Ok
JobConverted(j) ==
    /\ job_pc[j] = "converted"
    /\ JobPoll(j)
    /\ job_pc' = [job_pc EXCEPT ![j] = IF progress_cancelled THEN "finish"
                                       ELSE "cancel_check"]
    /\ UNCHANGED << progressing, progress_cancel_signal, start_outcome >>
    /\ UNCHANGED otherThanJobs

\* task: if !progress_cancelled() { transcribe(..) }
JobCancelCheck(j) ==
    /\ job_pc[j] = "cancel_check"
    /\ JobPoll(j)
    /\ job_pc' = [job_pc EXCEPT ![j] = IF progress_cancelled THEN "finish"
                                       ELSE "transcribing"]
    /\ UNCHANGED << progressing, progress_cancel_signal, start_outcome >>
    /\ UNCHANGED otherThanJobs

\* task: the transcription calls abort_cb, which is progress_cancelled()
JobTranscribePoll(j) ==
    /\ job_pc[j] = "transcribing"
    /\ job_polls[j] < MaxPolls + 2
    /\ JobPoll(j)
    /\ job_pc' = [job_pc EXCEPT ![j] = IF progress_cancelled THEN "failed"
                                       ELSE "transcribing"]
    /\ UNCHANGED << progressing, progress_cancel_signal, start_outcome >>
    /\ UNCHANGED otherThanJobs

\* task: transcribe_file returns Ok, or Err for a failure of its own
JobTranscribeEnd(j, ok) ==
    /\ job_pc[j] = "transcribing"
    /\ job_pc' = [job_pc EXCEPT ![j] = IF ok THEN "finish" ELSE "failed"]
    /\ UNCHANGED << progressing, progress_cancel_signal, job_polls,
                    cancel_requested, start_outcome >>
    /\ UNCHANGED otherThanJobs

\* task: the Err arm of transcribe picks its toast by progress_cancelled()
JobTranscribeFailed(j) ==
    /\ job_pc[j] = "failed"
    /\ JobPoll(j)
    /\ job_pc' = [job_pc EXCEPT ![j] = "finish"]
    /\ UNCHANGED << progressing, progress_cancel_signal, start_outcome >>
    /\ UNCHANGED otherThanJobs

\* task: set_progressing(false), and the task ends
JobFinish(j) ==
    /\ job_pc[j] = "finish"
    /\ progressing' = FALSE
    /\ job_pc' = [job_pc EXCEPT ![j] = "none"]
    /\ job_polls' = [job_polls EXCEPT ![j] = 0]
    /\ cancel_requested' = [cancel_requested EXCEPT ![j] = FALSE]
    /\ UNCHANGED << progress_cancel_signal, start_outcome >>
    /\ UNCHANGED otherThanJobs

NextJobs ==
    \/ \E valid \in BOOLEAN : on_start_transcribe(valid)
    \/ cancel_progress
    \/ \E j \in Jobs : JobSetProgressing(j)
    \/ \E j \in Jobs : \E exists \in BOOLEAN : JobResetCancel(j, exists)
    \/ \E j \in Jobs : JobConvertStart(j)
    \/ \E j \in Jobs : JobConvertEvent(j)
    \/ \E j \in Jobs : \E ok \in BOOLEAN : JobConvertEnd(j, ok)
    \/ \E j \in Jobs : JobConverted(j)
    \/ \E j \in Jobs : JobCancelCheck(j)
    \/ \E j \in Jobs : JobTranscribePoll(j)
    \/ \E j \in Jobs : \E ok \in BOOLEAN : JobTranscribeEnd(j, ok)
    \/ \E j \in Jobs : JobTranscribeFailed(j)
    \/ \E j \in Jobs : JobFinish(j)

JobsIdle ==
    /\ progressing = FALSE
    /\ progress_cancel_signal = FALSE
    /\ job_pc = << >>
    /\ job_polls = << >>
    /\ cancel_requested = << >>
    /\ start_outcome = "idle"

----------------------------------------------------------------------------
\* The specifications

\* transcription runs
Init ==
    /\ EngineInit /\ VadIdle /\ TrimIdle /\ SplitIdle /\ TimeIdle /\ ChunkerIdle
    /\ SetupIdle
    /\ BulkIdle
    /\ JobsIdle
    /\ overflow_checks = FALSE

Spec == Init /\ [][Next]_vars

\* calls of the EnergyVAD methods
InitVad ==
    /\ VadInit /\ EngineIdle /\ TrimIdle /\ SplitIdle /\ TimeIdle /\ ChunkerIdle
    /\ SetupIdle
    /\ BulkIdle
    /\ JobsIdle
    /\ overflow_checks \in BOOLEAN

SpecVad == InitVad /\ [][NextVad]_vars

\* runs of the silence trimmer, with a thread that may cancel
InitTrim ==
    /\ TrimInit /\ EngineIdle /\ VadIdle /\ SplitIdle /\ TimeIdle /\ ChunkerIdle
    /\ SetupIdle
    /\ BulkIdle
    /\ JobsIdle
    /\ overflow_checks \in BOOLEAN

SpecTrim == InitTrim /\ [][NextTrim]_vars

\* calls of split_subtitle_into_two
InitSplit ==
    /\ SplitInit /\ EngineIdle /\ VadIdle /\ TrimIdle /\ TimeIdle /\ ChunkerIdle
    /\ SetupIdle
    /\ BulkIdle
    /\ JobsIdle
    /\ overflow_checks = FALSE

SpecSplit == InitSplit /\ [][NextSplit]_vars

\* conversions of a time to an SRT timestamp and back
InitTime ==
    /\ TimeInit /\ EngineIdle /\ VadIdle /\ TrimIdle /\ SplitIdle /\ ChunkerIdle
    /\ SetupIdle
    /\ BulkIdle
    /\ JobsIdle
    /\ overflow_checks = FALSE

SpecTime == InitTime /\ [][NextTime]_vars

\* calls of split_audio_into_chunks, in either build profile
InitChunker ==
    /\ ChunkerInit /\ EngineIdle /\ VadIdle /\ TrimIdle /\ SplitIdle /\ TimeIdle
    /\ SetupIdle
    /\ BulkIdle
    /\ JobsIdle
    /\ overflow_checks \in BOOLEAN

SpecChunker == InitChunker /\ [][NextChunker]_vars

\* starts of transcriptions and of trims, for every configuration and format
InitSetup ==
    /\ SetupInit /\ EngineIdle /\ VadIdle /\ TrimIdle /\ SplitIdle /\ TimeIdle
    /\ ChunkerIdle
    /\ BulkIdle
    /\ JobsIdle
    /\ overflow_checks = FALSE

SpecSetup == InitSetup /\ [][NextSetup]_vars

\* operations over the subtitle list of the current entry
InitBulk ==
    /\ BulkInit /\ EngineIdle /\ VadIdle /\ TrimIdle /\ SplitIdle /\ TimeIdle
    /\ ChunkerIdle /\ SetupIdle
    /\ JobsIdle
    /\ overflow_checks = FALSE

SpecBulk == InitBulk /\ [][NextBulk]_vars

\* transcription jobs of the application
InitJobs ==
    /\ JobsInit /\ EngineIdle /\ VadIdle /\ TrimIdle /\ SplitIdle /\ TimeIdle
    /\ ChunkerIdle /\ SetupIdle /\ BulkIdle
    /\ overflow_checks = FALSE

SpecJobs == InitJobs /\ [][NextJobs]_vars

----------------------------------------------------------------------------
\* Claims about chunked and single-pass transcription

Returned == pc = "done" /\ result # None

\* C1: the segments of the merged result of a chunked run have
\* non-decreasing start_time, across chunk boundaries too, for every chunk
\* sequence split_audio_into_chunks produces.
C1_StartTimesNonDecreasing ==
    (Returned /\ should_use_chunking(config)) =>
        \A i \in 1..Len(result[1].segments) - 1 :
            result[1].segments[i].start_time <= result[1].segments[i + 1].start_time

\* C2: the segment indices of a chunked result are exactly 1, 2, ..., n in
\* list order.
C2_IndicesContiguous ==
    (Returned /\ should_use_chunking(config)) =>
        \A i \in 1..Len(result[1].segments) : result[1].segments[i].index = i

\* C3: a chunked run returns a result iff abort_cb returned false before
\* every chunk and every chunk's inference succeeded; on the first abort or
\* inference failure, at chunk k, it returns an error and no result, no chunk
\* after k is processed and no callback is invoked afterwards.
C3_AllOrNothing ==
    LET Has(kind, k, val) ==
            \E i \in 1..Len(events) :
                events[i].kind = kind /\ events[i].chunk = k /\ events[i].val = val
        ChunkOk(k) == Has("abort", k, 0) /\ Has("infer", k, 1) /\ ~Has("abort", k, 1)
                      /\ ~Has("infer", k, 0)
        last == events[Len(events)]
    IN  should_use_chunking(config) =>
        /\ (result # None) <=> (pc = "done")
        /\ pc = "done" => \A k \in 0..Len(chunks) - 1 : ChunkOk(k)
        /\ pc = "error" =>
              /\ \A k \in 0..chunk_idx - 1 : ChunkOk(k)
              /\ \/ last = Event("abort", chunk_idx, 1, 0, 0)
                 \/ last = Event("infer", chunk_idx, 0, 0, 0)
              /\ \A i \in 1..Len(events) : events[i].chunk <= chunk_idx
              /\ Len(all_segments) = global_segment_index
              /\ Cardinality({ i \in 1..Len(events) : events[i].kind = "progress" })
                     = chunk_idx

\* C3 witness: a run that failed at a later chunk, after segments and
\* progress had been reported
C3_Witness ==
    /\ pc = "error"
    /\ chunk_idx >= 1
    /\ chunk_idx < Len(chunks) - 1
    /\ all_segments # << >>
    /\ error = "Whisper transcribe chunk failed"

\* C4: result.text is the segment texts joined by exactly one space.
C4_TextIsSpaceJoined ==
    LET RECURSIVE Join(_, _)
        Join(segs, i) ==
            IF i > Len(segs) THEN << >>
            ELSE IF i = Len(segs) THEN segs[i].text
            ELSE segs[i].text \o << " " >> \o Join(segs, i + 1)
    IN  Returned => result[1].text = Join(result[1].segments, 1)

\* C25: in a chunked run the start and end times handed to the segment
\* callback, multiplied by 10 as the conversion to a Subtitle does, equal
\* the start_time and end_time of the same segment of the returned result,
\* and the callback's segment number is that segment's index minus 1, for
\* every chunk offset.
C25_CallbackTimesMatchResult ==
    (Returned /\ should_use_chunking(config)) =>
        LET at == { i \in 1..Len(events) : events[i].kind = "segment" }
            Nth(j) == CHOOSE i \in at :
                          Cardinality({ k \in at : k <= i }) = j
        IN  /\ Cardinality(at) = Len(result[1].segments)
            /\ \A j \in 1..Len(result[1].segments) :
                  /\ events[Nth(j)].start_timestamp * 10
                         = result[1].segments[j].start_time
                  /\ events[Nth(j)].end_timestamp * 10
                         = result[1].segments[j].end_time
                  /\ events[Nth(j)].val = result[1].segments[j].index - 1

\* C27: the chunks are processed one at a time in order.  Within chunk k the
\* abort check precedes the inference, the segment callbacks follow in
\* segment order, the progress callback floor(k * 100 / total_chunks) comes
\* last, and all of it precedes every callback of the next chunk; the
\* progress values do not decrease, lie within 0..100, and the last value
\* of a successful run is 100.
C27_ChunksInOrder ==
    LET n == Len(events)
        Rank(kind) == IF kind = "abort" THEN 0
                      ELSE IF kind = "infer" THEN 1
                      ELSE IF kind = "segment" THEN 2
                      ELSE 3
        progress == { i \in 1..n : events[i].kind = "progress" }
    IN  should_use_chunking(config) =>
        /\ \A i \in 1..n : \A j \in i + 1..n :
              /\ events[i].chunk <= events[j].chunk
              /\ events[i].chunk = events[j].chunk =>
                    /\ Rank(events[i].kind) <= Rank(events[j].kind)
                    /\ (events[i].kind = events[j].kind) =>
                          /\ events[i].kind = "segment"
                          /\ events[i].val < events[j].val
        /\ \A i \in 1..n :
              events[i].kind \in { "infer", "segment", "progress" }
              /\ events[i].chunk < Len(chunks) =>
                    events[1 + Cardinality({ j \in 1..i : events[j].chunk
                                                            < events[i].chunk })]
                        = Event("abort", events[i].chunk, 0, 0, 0)
        /\ \A i \in progress :
              /\ events[i].val \in 0..100
              /\ events[i].chunk < Len(chunks) =>
                    events[i].val = ((events[i].chunk + 1) * 100) \div Len(chunks)
              /\ \A j \in progress : i < j => events[i].val <= events[j].val
        /\ pc = "done" =>
              /\ events[n] = Event("progress", Len(chunks), 100, 0, 0)
              /\ \A k \in 0..Len(chunks) - 1 :
                    \E i \in progress : events[i].chunk = k

\* C27 witness: a successful run of two chunks or more in which a chunk
\* reported two segments
C27_Witness ==
    /\ pc = "done"
    /\ should_use_chunking(config)
    /\ Len(chunks) >= 2
    /\ \E i \in 1..Len(events) - 1 :
          /\ events[i].kind = "segment"
          /\ events[i + 1].kind = "segment"
          /\ events[i].chunk = events[i + 1].chunk

----------------------------------------------------------------------------
\* Claims about the EnergyVAD methods

\* C5: when the frame scan of detect_all_active_segments ends in the Active
\* state, the open segment is emitted with end = total_duration_ms; audio in
\* which every frame is speech yields exactly the segment (0, total).
C5_OpenSegmentEmitted ==
    vad_op = "detect_all_active_segments" =>
        LET st == ActiveScanEnd(vad_self, vad_samples)
            total_ms == (SliceLen(vad_samples) * 1000) \div vad_self.sample_rate
            out == vad_out.segments
            frames == { k \in 0..MaxVadBlocks :
                          k * FrameShift(vad_self) < SliceLen(vad_samples) }
            Speech(k) == FrameIsSpeech(vad_self, vad_samples, k * FrameShift(vad_self),
                             Min(k * FrameShift(vad_self) + FrameSize(vad_self),
                                 SliceLen(vad_samples)))
        IN  /\ st.in_active_segment =>
                  /\ out # << >>
                  /\ out[Len(out)] = << st.start_ms, total_ms >>
            /\ (frames # { } /\ \A k \in frames : Speech(k)) =>
                  out = << << 0, total_ms >> >>

\* C6: detect_trailing_silent_duration_ms scans
\* ceil((len - frame_size + frame_shift) / frame_shift) frames, the last one
\* reaching the end of the samples; it returns 0 if that frame is speech and
\* otherwise (total_frames - i - 1) * frame_shift_ms + frame_size_ms for the
\* last speech frame i.
C6_TrailingSilence ==
    (vad_op = "detect_trailing_silent_duration_ms"
     /\ SliceLen(vad_samples) >= FrameSize(vad_self)) =>
        LET len == SliceLen(vad_samples)
            shift == FrameShift(vad_self)
            total_frames == (len - FrameSize(vad_self) + shift + shift - 1) \div shift
            Speech(k) == FrameIsSpeech(vad_self, vad_samples, k * shift,
                             Min(k * shift + FrameSize(vad_self), len))
            speech == { k \in 0..total_frames - 1 : Speech(k) }
            i == CHOOSE k \in speech : \A j \in speech : j <= k
        IN  /\ ~vad_out.panicked
            /\ speech # { } =>
                  vad_out.value =
                      IF i = total_frames - 1 THEN 0
                      ELSE (total_frames - i - 1) * vad_self.frame_shift_ms
                           + vad_self.frame_size_ms

\* C7: detect_leading_silent_duration_ms returns 0 when frame 0 is speech,
\* k * frame_shift_ms when frame k > 0 is the first speech frame, and 0 when
\* no frame is speech or the input is empty.
C7_LeadingSilence ==
    vad_op = "detect_leading_silent_duration_ms" =>
        LET len == SliceLen(vad_samples)
            shift == FrameShift(vad_self)
            frames == { k \in 0..MaxVadBlocks : k * shift < len }
            Speech(k) == FrameIsSpeech(vad_self, vad_samples, k * shift,
                             Min(k * shift + FrameSize(vad_self), len))
            speech == { k \in frames : Speech(k) }
            first == CHOOSE k \in speech : \A j \in speech : k <= j
        IN  vad_out.value = IF speech = { } THEN 0
                            ELSE first * vad_self.frame_shift_ms

\* C7 witness: the first speech frame is frame 2 or later
C7_Witness ==
    /\ vad_op = "detect_leading_silent_duration_ms"
    /\ vad_out.value >= 2 * vad_self.frame_shift_ms

\* C22: every segment (start, end) returned by detect_all_active_segments has
\* start < end and spans at least one frame classified as speech: some speech
\* frame, which lasts from k * frame_shift_ms for frame_size_ms, meets the
\* segment; a stretch of silent frames alone yields no segment.
C22_SegmentsHoldSpeech ==
    vad_op = "detect_all_active_segments" =>
        LET len == SliceLen(vad_samples)
            shift == FrameShift(vad_self)
            frames == { k \in 0..MaxVadBlocks : k * shift < len }
            Speech(k) == FrameIsSpeech(vad_self, vad_samples, k * shift,
                             Min(k * shift + FrameSize(vad_self), len))
            out == vad_out.segments
        IN  \A i \in 1..Len(out) :
                /\ out[i][1] < out[i][2]
                /\ \E k \in frames :
                      /\ Speech(k)
                      /\ k * vad_self.frame_shift_ms <= out[i][2]
                      /\ (k * vad_self.frame_shift_ms) + vad_self.frame_size_ms
                             >= out[i][1]

----------------------------------------------------------------------------
\* Claims about trim_slient_duration_of_audio

\* C8: given windows with start_ms < end_ms, no output window has
\* end_ms <= start_ms.
C8_NoEmptyWindow ==
    /\ \A i \in 1..Len(output_timestamps) :
          output_timestamps[i][1] < output_timestamps[i][2]
    /\ \A i \in 1..Len(trim_result.timestamps) :
          trim_result.timestamps[i][1] < trim_result.timestamps[i][2]

\* C8 witness: a finished run whose output holds a window that was trimmed
C8_Witness ==
    /\ trim_result.status = "Finished"
    /\ \E i \in 1..Len(trim_result.timestamps) :
          trim_result.timestamps[i] # timestamps[i]

\* C23: for each window whose sample slice is not empty, the window emitted
\* is (new_start, new_end), or the input window when that is empty, with
\* new_start = start + (leading - frame_size_ms) if leading > frame_size_ms,
\* else start, and
\* new_end = end - min(max(trailing - frame_size_ms, 0), end - start);
\* it lies inside the input window.
C23_TrimmedWindowInside ==
    \A i \in 1..Len(output_timestamps) :
        LET start == timestamps[i][1]
            end == timestamps[i][2]
            start_index == (SampleRate * start) \div 1000
            end_index == Min((SampleRate * end) \div 1000,
                             TotalSamples(audio_samples))
            segment == [audio |-> audio_samples, lo |-> start_index,
                        hi |-> end_index]
            v == with_threshold(EnergyVAD_new(SampleRate),
                     ScaleRms(calculate_rms(audio_samples, start_index, end_index),
                              adaptive_threshold_factor))
            leading == detect_leading_silent_duration_ms(v, segment)
            trailing == detect_trailing_silent_duration_ms(v, segment, FALSE).value
            new_start == IF leading > FrameSizeMs
                         THEN start + (leading - FrameSizeMs) ELSE start
            new_end == end - Min(Max(trailing - FrameSizeMs, 0), end - start)
            out == output_timestamps[i]
        IN  start_index < end_index =>
                /\ out = IF new_start < new_end THEN << new_start, new_end >>
                         ELSE << start, end >>
                /\ start <= out[1]
                /\ out[2] <= end

\* C23 witness: a window with samples has been emitted with a later start
C23_Witness ==
    \E i \in 1..Len(output_timestamps) :
        /\ (SampleRate * timestamps[i][1]) \div 1000 < TotalSamples(audio_samples)
        /\ output_timestamps[i][1] > timestamps[i][1]

\* C9: the run returns (empty list, Cancelled) as soon as the cancel flag is
\* seen set at the check before a window; if it is never seen set the run
\* returns Finished with one output window per input window, in input order.
C9_CancelledOrFinished ==
    /\ [](trim_pc \in { "returned", "panicked" } =>
            \/ trim_result = [status |-> "Cancelled", timestamps |-> << >>]
            \/ /\ trim_result.status = "Finished"
               /\ Len(trim_result.timestamps) = Len(timestamps)
               /\ \A i \in 1..Len(timestamps) :
                     /\ timestamps[i][1] <= trim_result.timestamps[i][1]
                     /\ trim_result.timestamps[i][2] <= timestamps[i][2])
    /\ [][(trim_pc = "loop" /\ trim_index < Len(timestamps) /\ cancel) =>
              trim_result' = [status |-> "Cancelled", timestamps |-> << >>]]_vars

\* C26: in a run over n >= 1 windows that is not cancelled, the progress
\* callback is invoked once per window, with floor(k * 100 / n) after the
\* k-th window, also for a window that is kept unchanged: the values do not
\* decrease and the last one before Finished is 100.
C26_ProgressPerWindow ==
    (trim_result.status = "Finished" /\ Len(timestamps) >= 1) =>
        LET n == Len(timestamps)
        IN  /\ trim_progress = [k \in 1..n |-> (k * 100) \div n]
            /\ trim_progress[Len(trim_progress)] = 100

\* C28: a window whose sample slice is shorter than one VAD frame (200 ms)
\* is processed without unsigned underflow: the trailing-silence detection
\* never takes the slice length minus the frame size below zero, so the run
\* does not stop at that window before emitting it.
C28_ShortWindowEmitted ==
    \A i \in 1..Len(timestamps) :
        LET start_index == (SampleRate * timestamps[i][1]) \div 1000
            end_index == Min((SampleRate * timestamps[i][2]) \div 1000,
                             TotalSamples(audio_samples))
            short == /\ start_index < end_index
                     /\ end_index - start_index
                            < FrameSize(EnergyVAD_new(SampleRate))
        IN  (short /\ trim_index = i - 1) => trim_pc # "panicked"

----------------------------------------------------------------------------
\* Claims about split_subtitle_into_two

\* C10: no split is returned for a text that is empty or has at most one
\* character (a Unicode character of any byte length) once surrounding
\* whitespace is ignored.
C10_NoSplitOfOneCharacter ==
    (split_called /\ Len(Trim(content)) <= 1) => ~split_result.some

\* C11: a text with a delimiter is split at the byte position right after
\* the delimiter nearest to floor(byte length / 2), the earliest such
\* delimiter in scan order on a tie, and both halves are returned trimmed.
C11_SplitAtNearestDelimiter ==
    LET target == ByteLen(content) \div 2
        Pos(i) == ByteLen(SubSeq(content, 1, i))
        Dist(i) == IF Pos(i) >= target THEN Pos(i) - target ELSE target - Pos(i)
        Delims == { i \in 1..Len(content) : content[i] \in delimiters }
    IN  (split_called /\ Delims # { } /\ Len(Trim(content)) > 1) =>
            /\ split_result.some
            /\ \E i \in Delims :
                  /\ \A j \in Delims : (j < i => Dist(j) > Dist(i))
                                       /\ (j > i => Dist(j) >= Dist(i))
                  /\ split_result.first[3] = Trim(SubSeq(content, 1, i))
                  /\ split_result.second[3] =
                         Trim(SubSeq(content, i + 1, Len(content)))

\* a split text in which two delimiters are equally near the middle and
\* cutting at one or the other gives different halves
C11_Witness ==
    LET target == ByteLen(content) \div 2
        Pos(i) == ByteLen(SubSeq(content, 1, i))
        Dist(i) == IF Pos(i) >= target THEN Pos(i) - target ELSE target - Pos(i)
        Delims == { i \in 1..Len(content) : content[i] \in delimiters }
    IN  /\ split_called
        /\ split_result.some
        /\ \E i, j \in Delims :
              /\ i < j
              /\ Dist(i) = Dist(j)
              /\ \A k \in Delims : Dist(k) >= Dist(i)
              /\ Trim(SubSeq(content, 1, i)) # Trim(SubSeq(content, 1, j))

\* C12: for start <= end a split returns ((start, t, first), (t, end, second))
\* with t = start + floor((end - start) * chars(first) / chars(text)), text
\* being the original untrimmed text; so first.end = second.start, the outer
\* bounds are unchanged and start <= t <= end.
C12_SplitTimeProportional ==
    (split_called /\ split_result.some /\ start_timestamp <= end_timestamp) =>
        LET first == split_result.first
            second == split_result.second
            t == start_timestamp +
                     (((end_timestamp - start_timestamp) * Len(first[3]))
                          \div Len(content))
        IN  /\ first[1] = start_timestamp
            /\ first[2] = t
            /\ second[1] = t
            /\ second[2] = end_timestamp
            /\ start_timestamp <= t
            /\ t <= end_timestamp

\* a split strictly inside the span of a text that lost whitespace to trimming
C12_Witness ==
    /\ split_called
    /\ split_result.some
    /\ start_timestamp < split_result.first[2]
    /\ split_result.first[2] < end_timestamp
    /\ Len(Trim(content)) < Len(content)
    /\ split_result.first[3] # << >>

\* C13: a text without delimiter is split into its first floor(g / 2)
\* grapheme clusters and the remaining ones, g being its number of grapheme
\* clusters: the halves concatenate to the text and no cluster is cut.
C13_GraphemeMidpoint ==
    LET n == Len(content)
        Boundaries == { i \in 0..n :
                          i = 0 \/ i = n \/ content[i + 1] # "ACUTE" }
        g == Cardinality(Boundaries) - 1
        Clusters(k) == Cardinality({ b \in Boundaries : b < k })
    IN  (split_called /\ split_result.some
           /\ \A i \in 1..n : content[i] \notin delimiters) =>
            \E k \in Boundaries :
                /\ Clusters(k) = g \div 2
                /\ split_result.first[3] = SubSeq(content, 1, k)
                /\ split_result.second[3] = SubSeq(content, k + 1, n)
                /\ split_result.first[3] \o split_result.second[3] = content

\* a split text without delimiter whose first half ends in a cluster of a
\* letter and a combining mark
C13_Witness ==
    /\ split_called
    /\ split_result.some
    /\ \A i \in 1..Len(content) : content[i] \notin delimiters
    /\ Len(split_result.first[3]) >= 2
    /\ split_result.first[3][Len(split_result.first[3])] = "ACUTE"
    /\ split_result.second[3] # << >>

\* C24: whenever a split is returned, both returned texts are non-empty,
\* also for a text whose only delimiter is its last character and for a
\* text that starts with a delimiter.
C24_BothPartsNonEmpty ==
    (split_called /\ split_result.some) =>
        /\ split_result.first[3] # << >>
        /\ split_result.second[3] # << >>

----------------------------------------------------------------------------
\* Claims about SRT timestamps

\* C14: for every ms in [0, 86400000), srt_timestamp_to_ms(
\* ms_to_srt_timestamp(ms)) succeeds and returns ms.
C14_SrtRoundTrip ==
    (time_pc = "parsed" /\ milliseconds < 86400000) =>
        time_result.ok /\ time_result.value = milliseconds

\* a time of the last hour of the day with a fraction of fewer than three
\* digits has been formatted and parsed back
C14_Witness ==
    /\ time_pc = "parsed"
    /\ milliseconds >= 23 * 3600000
    /\ milliseconds < 86400000
    /\ milliseconds % 1000 \in 1..99
    /\ Len(timestamp) = 12

----------------------------------------------------------------------------
\* Claims about split_audio_into_chunks

\* C15: when the audio lasts at most chunk_length_ms, the call returns
\* exactly one chunk, holding all the samples at start_offset_ms = 0, and
\* searches for no silence.
C15_SingleChunk ==
    LET total_samples == TotalSamples(chunker_audio)
    IN  (/\ chunker_pc \notin { "idle", "start" }
         /\ total_samples * 1000 <= chunk_length_ms_of(chunker_config) * SampleRate) =>
            /\ chunker_pc = "returned"
            /\ chunker_chunks = << [samples |-> [lo |-> 0, hi |-> total_samples],
                                    start_offset_ms |-> 0] >>
            /\ silence_searches = 0

\* an audio that lasts exactly chunk_length_ms has been returned as one chunk
C15_Witness ==
    /\ chunker_pc = "returned"
    /\ chunker_audio # << >>
    /\ TotalSamples(chunker_audio) * 1000 =
           chunk_length_ms_of(chunker_config) * SampleRate
    /\ Len(chunker_chunks) = 1

\* the frames of the search window of find_silence_split_point: frame i
\* starts i hops after target_end; it is silent when it holds no speech by
\* the threshold of the window
SearchEnd(audio, target_end) ==
    Min(target_end + ((MaxSearchMs * SampleRate) \div 1000), TotalSamples(audio))

SearchFrames(audio, target_end) ==
    LET search_len == SearchEnd(audio, target_end) - target_end
    IN  (search_len + FrameShift(EnergyVAD_new(SampleRate)) - 1)
            \div FrameShift(EnergyVAD_new(SampleRate))

SearchFrameSilent(audio, target_end, i) ==
    LET search_end == SearchEnd(audio, target_end)
        vad == with_threshold(EnergyVAD_new(SampleRate),
                              ScaleRms(calculate_rms(audio, target_end, search_end),
                                       [n |-> 1, d |-> 4]))
        lo == target_end + (i * FrameShift(vad))
    IN  ~contain_speech(vad, audio, lo, Min(lo + FrameSize(vad), search_end))

\* the maximal runs << a, b >> of silent frames a .. b - 1 that last at least
\* MinSilenceDurationMs, a run of k frames lasting k hops
LongSilenceRuns(audio, target_end) ==
    LET n == SearchFrames(audio, target_end)
        silent(i) == SearchFrameSilent(audio, target_end, i)
        hop_ms == FrameShiftMs
    IN  { r \in (0..n) \X (0..n) :
            /\ r[1] < r[2]
            /\ \A i \in r[1]..(r[2] - 1) : silent(i)
            /\ r[1] = 0 \/ ~silent(r[1] - 1)
            /\ r[2] = n \/ ~silent(r[2])
            /\ (r[2] - r[1]) * hop_ms >= MinSilenceDurationMs }

\* C21: the first run of silent frames of at least 500 ms in the search
\* window decides the split, which is the midpoint of that run and is
\* reported silence-aligned; only when the window holds no such run is
\* ideal_end returned, reported not silence-aligned.
C21_FirstLongSilenceDecides ==
    silence_split # None =>
        LET found == silence_split[1]
            runs == LongSilenceRuns(chunker_audio, found.target_end)
            hop == FrameShift(EnergyVAD_new(SampleRate))
        IN  IF runs = { }
            THEN found.split = found.target_end /\ ~found.aligned
            ELSE LET first == CHOOSE r \in runs : \A q \in runs : r[1] <= q[1]
                 IN  /\ found.aligned
                     /\ found.split = found.target_end + (first[1] * hop)
                                          + (((first[2] - first[1]) * hop) \div 2)

\* C19: when the audio lasts longer than chunk_length_ms and the overlap is
\* shorter than a chunk, the chunks returned cover the whole signal: the
\* first starts at sample 0, each later one starts at or before the end of
\* the one before it, and the last ends at total_samples.
C19_ChunksCoverSignal ==
    LET total_samples == TotalSamples(chunker_audio)
        n == Len(chunker_chunks)
    IN  (/\ chunker_pc = "returned"
         /\ total_samples * 1000 > chunk_length_ms_of(chunker_config) * SampleRate
         /\ overlap_samples_of(chunker_config) < chunk_samples_of(chunker_config)) =>
            /\ n >= 1
            /\ chunker_chunks[1].samples.lo = 0
            /\ \A i \in 2..n :
                  chunker_chunks[i].samples.lo <= chunker_chunks[i - 1].samples.hi
            /\ chunker_chunks[n].samples.hi = total_samples

\* C20: for every chunk length above 0 and every overlap, an overlap of a
\* chunk length or more and one longer than the audio included, each
\* iteration of the loop that is followed by another one has strictly
\* increased current_start, and no iteration panics, so that the loop ends.
C20_LoopAdvances ==
    [][ChunkerIterate =>
          /\ chunker_pc' # "panicked"
          /\ chunker_pc' = "loop" => ULess(current_start, current_start')]_vars

----------------------------------------------------------------------------
\* Claims about the checks made before inference and before trimming

C17_ConfigErrorsBeforeAudio ==
    LET rejected == \/ ~call_config.model_path_exists
                    \/ call_config.n_threads <= 0
                    \/ call_config.temperature < 0
                    \/ call_config.temperature > 10
                    \/ call_config.vad_model_path = Some(FALSE)
    IN  (call = "transcribe" /\ rejected) =>
            /\ call_pc \in { "new", "error" }
            /\ \A i \in 1..Len(call_log) :
                  call_log[i] \notin { "read_file", "create_state", "full" }

----------------------------------------------------------------------------
\* Claims about the operations over the subtitle list

\* C18: a timestamp that does not parse in one subtitle entry affects only
\* that entry: timestamp optimisation, subtitle export and the lookup of the
\* current subtitle neither crash nor give up, and every other entry is
\* still processed.
C18_MalformedEntryIsLocal ==
    bulk_op # "idle" =>
        /\ bulk_outcome # "panicked"
        /\ \A row \in 1..Len(subtitle_entries) :
              Parses(subtitle_entries[row]) =>
                  \E j \in 1..Len(bulk_result) : bulk_result[j].index = row

----------------------------------------------------------------------------
\* Claims about the transcription jobs of the application

\* C29: at most one transcription job runs at a time: a start-transcribe
\* made before the job of an earlier one has finished is rejected by the
\* get_progressing() guard, so no second task is spawned.
C29_OneJobAtATime ==
    Cardinality({ j \in DOMAIN job_pc : job_pc[j] # "none" }) <= 1

\* C30: a cancel request is never lost: once cancel_progress has set the
\* flag while a job is running, no step of that job or of another job
\* resets the flag before the job has read it, and the job's next read of
\* the flag finds it set.
C30_CancelNeverLost ==
    [][\A j \in DOMAIN job_pc :
          cancel_requested[j] =>
              /\ progress_cancel_signal' \/ ~cancel_requested'[j]
              /\ job_polls'[j] > job_polls[j] => progress_cancel_signal]_vars

====
